---------------------------- MODULE Spec2Model ----------------------------
(***************************************************************************)
(* A model of the lightcone cutout pipeline of cosmo-cutout:               *)
(* src/src/processLC.cpp (the two processLC overloads: fixed theta-phi     *)
(* window, and halo-centred window reached by a rotation) and the vector   *)
(* helpers of src/src/util.cpp.                                            *)
(*                                                                         *)
(* Conventions of the model                                                *)
(*  - A float is modelled by an integer.  Positions are small integers;    *)
(*    an angle is its value in arcseconds rounded to the nearest integer   *)
(*    (the code carries angles in arcseconds).  acos and atan are tables   *)
(*    over the arguments the bounded positions can produce.                *)
(*  - A file is a sequence of 4-byte words; a float or an int is one word, *)
(*    a 64-bit id is two words, low word first (little-endian hosts).      *)
(*  - A std::vector is a sequence; np_count and np_offset, which the code  *)
(*    indexes after clear(), are modelled as a size and the raw storage.   *)
(***************************************************************************)
EXTENDS Integers, Sequences, FiniteSets, TLC

(***************************************************************************)
(* Bounds of the model.                                                    *)
(***************************************************************************)
NumRanks == 2
MaxNp == 1
MaxCutNp == 2
MaxRows == 3
MaxDim == 4
MaxCoord == 1

(***************************************************************************)
(* Program constants.                                                      *)
(***************************************************************************)
SizeofPosvel == 4
SizeofId == 8
SizeofWord == 4
SkipStep == 499
HalfPiArcsec == 324000
PiArcsec == 648000

Ranks == 0 .. (NumRanks - 1)

Vec(a, b, c) == <<a, b, c>>

(***************************************************************************)
(* Small arithmetic helpers of the model (exact on the bounded domain).    *)
(***************************************************************************)
Abs(a) == IF a < 0 THEN -a ELSE a

RECURSIVE Gcd(_, _)
Gcd(a, b) == IF b = 0 THEN a ELSE Gcd(b, a % b)

\* sqrt() of a perfect square; the bounded inputs only produce those here
Sqrt(n) == CHOOSE s \in 0 .. n : s * s = n

\* acos(sqrt(n/d)) in arcseconds, n/d a reduced fraction
AcosSqrtTable(n, d) ==
    CASE n = 0            -> 324000
      [] n = 1 /\ d = 9   -> 253904
      [] n = 1 /\ d = 6   -> 237259
      [] n = 1 /\ d = 5   -> 228366
      [] n = 1 /\ d = 3   -> 197048
      [] n = 4 /\ d = 9   -> 173483
      [] n = 1 /\ d = 2   -> 162000
      [] n = 2 /\ d = 3   -> 126952
      [] n = 4 /\ d = 5   -> 95634
      [] n = 1 /\ d = 1   -> 0

\* atan(n/d) in arcseconds, n/d a reduced non-negative fraction
AtanTable(n, d) ==
    CASE n = 0            -> 0
      [] n = 1 /\ d = 2   -> 95634
      [] n = 1 /\ d = 1   -> 162000
      [] n = 2 /\ d = 1   -> 228366

\* acos(z / r) * 180 / PI * ARCSEC with r = sqrt(r2)
AcosArcsec(z, r2) ==
    LET g == Gcd(z * z, r2)
        t == AcosSqrtTable((z * z) \div g, r2 \div g)
    IN  IF z >= 0 THEN t ELSE PiArcsec - t

\* atan(y / x) * 180 / PI * ARCSEC, x # 0
AtanArcsec(y, x) ==
    LET g == Gcd(Abs(y), Abs(x))
        t == AtanTable(Abs(y) \div g, Abs(x) \div g)
    IN  IF (y >= 0) = (x > 0) THEN t ELSE -t

\* sin and cos of an angle of 0, 90 or 180 degrees
SinDeg(B) == IF B = 90 THEN 1 ELSE 0
CosDeg(B) == CASE B = 0 -> 1 [] B = 90 -> 0 [] B = 180 -> -1

(***************************************************************************)
(* util.cpp: vector and matrix helpers.                                    *)
(***************************************************************************)
InnerProduct(v1, v2) == v1[1] * v2[1] + v1[2] * v2[2] + v1[3] * v2[3]

\* the angle between v1 and v2, in degrees (0, 90 or 180 on the bounded domain)
vecPairAngle(v1, v2) ==
    LET v1dv2 == InnerProduct(v1, v2)
        mag_v1 == Sqrt(InnerProduct(v1, v1))
        mag_v2 == Sqrt(InnerProduct(v2, v2))
    IN  CASE v1dv2 = mag_v1 * mag_v2    -> 0
          [] v1dv2 = 0                  -> 90
          [] v1dv2 = -(mag_v1 * mag_v2) -> 180

\* (a variant: the middle component without its sign)
crossUnsigned(v1, v2) ==
    << v1[2] * v2[3] - v1[3] * v2[2],
       v1[1] * v2[3] - v1[3] * v2[1],
       v1[1] * v2[2] - v1[2] * v2[1] >>

cross(v1, v2) ==
    << v1[2] * v2[3] - v1[3] * v2[2],
       -(v1[1] * v2[3] - v1[3] * v2[1]),
       v1[1] * v2[2] - v1[2] * v2[1] >>

normCross(a, b) ==
    LET axb == cross(a, b)
        mag_axb == Sqrt(InnerProduct(axb, axb))
    IN  [i \in 1 .. 3 |-> IF mag_axb = 0 THEN 0 ELSE axb[i] \div mag_axb]

scalarMultiply(matrix, scalar) ==
    [n \in 1 .. 3 |-> [m \in 1 .. 3 |-> matrix[n][m] * scalar]]

squareMat(matrix) ==
    [n \in 1 .. 3 |-> [m \in 1 .. 3 |->
        matrix[n][1] * matrix[1][m] + matrix[n][2] * matrix[2][m]
            + matrix[n][3] * matrix[3][m]]]

matVecMul(matrix, vec) ==
    [n \in 1 .. 3 |->
        matrix[n][1] * vec[1] + matrix[n][2] * vec[2] + matrix[n][3] * vec[3]]

cross_prod_matrix(kk) ==
    << << 0, -kk[3], kk[2] >>,
       << kk[3], 0, -kk[1] >>,
       << -kk[2], kk[1], 0 >> >>

\* (a variant: the identity is left out of the sum)
rotation_matrix_noI(K, BB) ==
    LET K2 == squareMat(K)
        Ksin == scalarMultiply(K, SinDeg(BB))
        K2cos == scalarMultiply(K2, 1 - CosDeg(BB))
    IN  [n \in 1 .. 3 |-> [m \in 1 .. 3 |-> Ksin[n][m] + K2cos[n][m]]]

rotation_matrix(K, BB) ==
    LET K2 == squareMat(K)
        Ksin == scalarMultiply(K, SinDeg(BB))
        K2cos == scalarMultiply(K2, 1 - CosDeg(BB))
    IN  [n \in 1 .. 3 |-> [m \in 1 .. 3 |->
            (IF n = m THEN 1 ELSE 0) + Ksin[n][m] + K2cos[n][m]]]

\* rotate(k, B, v, v_rot): Rodrigues rotation of v about k by B
rotate(kk, BB, v) == matVecMul(rotation_matrix(cross_prod_matrix(kk), BB), v)


(***************************************************************************)
(* processLC.cpp: buffers.                                                 *)
(***************************************************************************)
ReadCols == {"x", "y", "z", "vx", "vy", "vz", "a", "id", "step",
             "rotation", "replication"}
WriteCols == ReadCols \cup {"theta", "phi"}

\* struct Buffers_read, as default-constructed
Buffers_read == [c \in ReadCols |-> <<>>]

\* a vector<int> seen as its size and its raw storage (the storage outlives
\* clear(), and operator[] reaches it whatever the size)
IntVector(n) == [size |-> n, store |-> [j \in 0 .. (n - 1) |-> 0]]
VectorClear(v) == [v EXCEPT !.size = 0]

\* struct Buffers_write, after np_count.resize(numranks) and
\* np_offset.resize(numranks)
Buffers_write ==
    [c \in WriteCols |-> <<>>] @@
    [np_count |-> IntVector(NumRanks), np_offset |-> IntVector(NumRanks)]

(***************************************************************************)
(* The input: the records the snapshot reader hands to a rank.  The record *)
(* read as number n by rank rk in step number si gets field values of its  *)
(* own (its tag), so that a word of a file names the record it came from.  *)
(***************************************************************************)
Tag(si, rk, n) == ((si - 1) * NumRanks + rk) * 10 + n

\* a 64-bit id, as its low and its high 32-bit word
IdOf(tag) == <<tag, 1>>

Partition(si, stepNo, rk, pos) ==
    LET Np == Len(pos)
        col(base) == [n \in 1 .. Np |-> base + Tag(si, rk, n)]
    IN  [x |-> [n \in 1 .. Np |-> pos[n][1]],
         y |-> [n \in 1 .. Np |-> pos[n][2]],
         z |-> [n \in 1 .. Np |-> pos[n][3]],
         vx |-> col(1000), vy |-> col(2000), vz |-> col(3000),
         a |-> col(4000),
         id |-> [n \in 1 .. Np |-> IdOf(Tag(si, rk, n))],
         step |-> [n \in 1 .. Np |-> stepNo],
         rotation |-> col(7000),
         replication |-> col(8000)]

SeqsUpTo(S, n) == UNION {[1 .. m -> S] : m \in 0 .. n}

(***************************************************************************)
(* processLC.cpp: the cut.                                                 *)
(***************************************************************************)
\* "limit cutout to first octant for speed"
Octant(v) == v[1] > 0 /\ v[2] > 0 /\ v[3] > 0

\* float theta = acos(z/r_halo) * 180.0 / PI * ARCSEC
ThetaOf(v) == AcosArcsec(v[3], InnerProduct(v, v))
\* float phi = atan(y/x) * 180.0 / PI * ARCSEC
PhiOf(v) == AtanArcsec(v[2], v[1])

\* (a variant: the bounds themselves are inside)
InWindowLoose(theta, phi, tc, pc_) ==
    theta >= tc[1] /\ theta <= tc[2] /\ phi >= pc_[1] /\ phi <= pc_[2]

\* the test of the cut: strict on the four bounds
InWindow(theta, phi, tc, pc_) ==
    theta > tc[1] /\ theta < tc[2] /\ phi > pc_[1] /\ phi < pc_[2]

\* (a variant: the record goes to the front of every column)
PushFront(wb, rb, n, theta, phi) ==
    [wb EXCEPT !.theta = << theta >> \o @,
               !.phi = << phi >> \o @,
               !.x = << rb.x[n] >> \o @,
               !.y = << rb.y[n] >> \o @,
               !.z = << rb.z[n] >> \o @,
               !.vx = << rb.vx[n] >> \o @,
               !.vy = << rb.vy[n] >> \o @,
               !.vz = << rb.vz[n] >> \o @,
               !.a = << rb.a[n] >> \o @,
               !.id = << rb.id[n] >> \o @,
               !.rotation = << rb.rotation[n] >> \o @,
               !.replication = << rb.replication[n] >> \o @]

\* the push_back block: theta, phi and the ten copied columns
PushBack(wb, rb, n, theta, phi) ==
    [wb EXCEPT !.theta = Append(@, theta),
               !.phi = Append(@, phi),
               !.x = Append(@, rb.x[n]),
               !.y = Append(@, rb.y[n]),
               !.z = Append(@, rb.z[n]),
               !.vx = Append(@, rb.vx[n]),
               !.vy = Append(@, rb.vy[n]),
               !.vz = Append(@, rb.vz[n]),
               !.a = Append(@, rb.a[n]),
               !.id = Append(@, rb.id[n]),
               !.rotation = Append(@, rb.rotation[n]),
               !.replication = Append(@, rb.replication[n])]

\* body of the cut loop of the fixed-window processLC, for record n
CutRecordFixed(wb, rb, n, tc, pc_) ==
    LET v == Vec(rb.x[n], rb.y[n], rb.z[n])
    IN  IF Octant(v) /\ InWindow(ThetaOf(v), PhiOf(v), tc, pc_)
        THEN PushBack(wb, rb, n, ThetaOf(v), PhiOf(v))
        ELSE wb

\* (a variant: the octant test and the x, y, z pushed are those of the
\* rotated position)
CutRecordHaloAllRotated(wb, rb, n, kk, BB, tc, pc_) ==
    LET v == Vec(rb.x[n], rb.y[n], rb.z[n])
        v_rot == rotate(kk, BB, v)
        rot == [rb EXCEPT !.x[n] = v_rot[1], !.y[n] = v_rot[2],
                          !.z[n] = v_rot[3]]
    IN  IF Octant(v_rot) /\ InWindow(ThetaOf(v_rot), PhiOf(v_rot), tc, pc_)
        THEN PushBack(wb, rot, n, ThetaOf(v_rot), PhiOf(v_rot))
        ELSE wb

\* body of the cut loop of the halo processLC, for record n
CutRecordHalo(wb, rb, n, kk, BB, tc, pc_) ==
    LET v == Vec(rb.x[n], rb.y[n], rb.z[n])
        v_rot == rotate(kk, BB, v)
    IN  IF Octant(v) /\ InWindow(ThetaOf(v_rot), PhiOf(v_rot), tc, pc_)
        THEN PushBack(wb, rb, n, ThetaOf(v_rot), PhiOf(v_rot))
        ELSE wb

\* for (int n=0; n<Np; ++n) { ... }, from record n on
RECURSIVE CutLoop(_, _, _, _, _, _, _, _)
CutLoop(wb, rb, n, Np, md, kk, BB, cuts) ==
    IF n > Np THEN wb
    ELSE CutLoop(IF md = "halo"
                 THEN CutRecordHalo(wb, rb, n, kk, BB, cuts[1], cuts[2])
                 ELSE CutRecordFixed(wb, rb, n, cuts[1], cuts[2]),
                 rb, n + 1, Np, md, kk, BB, cuts)

(***************************************************************************)
(* processLC.cpp (halo): the rotation and the window, set up once.         *)
(***************************************************************************)
HaloR(hp) == Sqrt(InnerProduct(hp, hp))
RotatedPos(hp) == Vec(HaloR(hp), 0, 0)
HaloAxis(hp) == normCross(hp, RotatedPos(hp))
HaloAngle(hp) == vecPairAngle(hp, RotatedPos(hp))
\* dtheta = atan(halfBoxLength / halo_r), halfBoxLength = boxLength / 2.0
HaloDtheta(hp, L) == AtanArcsec(L, 2 * HaloR(hp))
HaloThetaCut(hp, L) ==
    << HalfPiArcsec - HaloDtheta(hp, L), HalfPiArcsec + HaloDtheta(hp, L) >>
\* (a variant: the phi window starts at 0)
HaloPhiCutOneSided(hp, L) == << 0, 2 * HaloDtheta(hp, L) >>
HaloPhiCut(hp, L) == << 0 - HaloDtheta(hp, L), 0 + HaloDtheta(hp, L) >>

(***************************************************************************)
(* util.cpp: getLCFile.  A name is a sequence of characters, a directory   *)
(* is the sequence of names readdir() returns ("." and ".." among them).   *)
(***************************************************************************)
\* string::find(pat) != string::npos
Find(name, pat) ==
    \E o \in 0 .. (Len(name) - Len(pat)) :
        \A j \in 1 .. Len(pat) : name[o + j] = pat[j]

\* the test of the readdir loop: "lc" in the name and no "#"
IsHeader(name) == Find(name, << "l", "c" >>) /\ ~Find(name, << "#" >>)

\* the names pushed to `files`, in readdir order
RECURSIVE HeaderFiles(_)
HeaderFiles(entries) ==
    IF entries = <<>> THEN <<>>
    ELSE (IF IsHeader(Head(entries)) THEN << Head(entries) >> ELSE <<>>)
             \o HeaderFiles(Tail(entries))

\* getLCFile(dir, file): whether it calls MPI_Abort, the value it returns
\* (1 stands for errno) and the string it leaves in `file`
getLCFile(d) ==
    IF ~d.exists THEN [abort |-> FALSE, ret |-> 1, file |-> <<>>]
    ELSE LET found == HeaderFiles(d.entries)
         IN  IF Len(found) = 0 \/ Len(found) > 1
             THEN [abort |-> TRUE, ret |-> 0, file |-> <<>>]
             ELSE [abort |-> FALSE, ret |-> 0, file |-> found[1]]

\* MPI_Abort(MPI_COMM_WORLD, 0): every rank still running is ended
MpiAbort(label) ==
    IF label \in {"returned", "threw", "gio_failed", "aborted"} THEN label ELSE "mpi_aborted"

(***************************************************************************)
(* util.cpp: readHaloFile.  A halo file is a sequence of rows, a row a     *)
(* sequence of tokens; a token is <<"h", n>> (an id) or <<"n", v>> (the    *)
(* decimal text of the number v).                                          *)
(***************************************************************************)
\* istream_iterator<string>: the whitespace-delimited tokens of the file
RECURSIVE Tokens(_)
Tokens(rows) == IF rows = <<>> THEN <<>> ELSE Head(rows) \o Tokens(Tail(rows))

\* strtof(token, 0): 0 when the token is not a number
Strtof(tok) == IF tok[1] = "n" THEN tok[2] ELSE 0

\* readHaloFile with the position loop reading haloPos_strs[i+1]: the id of
\* the next row is not stepped over
readHaloFileNoSkip(rows) ==
    LET strs == Tokens(rows)
        n == Len(strs)
    IN  IF n % 4 # 0
        THEN [abort |-> TRUE, haloPos |-> <<>>, haloIds |-> <<>>]
        ELSE [abort |-> FALSE,
              haloPos |-> [j \in 1 .. ((n \div 4) * 3) |->
                              Strtof(strs[(j - 1) + 1 + 1])],
              haloIds |-> [j \in 1 .. (n \div 4) |-> strs[(j - 1) * 4 + 1]]]

\* readHaloFile(haloFileName, haloPos, haloIds)
readHaloFile(rows) ==
    LET strs == Tokens(rows)
        n == Len(strs)
    IN  IF n % 4 # 0
        THEN [abort |-> TRUE, haloPos |-> <<>>, haloIds |-> <<>>]
        ELSE [abort |-> FALSE,
              haloPos |-> [j \in 1 .. ((n \div 4) * 3) |->
                              Strtof(strs[(j - 1) + 1 + ((j - 1) \div 3) + 1])],
              haloIds |-> [j \in 1 .. (n \div 4) |-> strs[(j - 1) * 4 + 1]]]

(***************************************************************************)
(* The inputs the model draws.                                             *)
(***************************************************************************)
\* names of directory entries
Dot == << "." >>
DotDot == << ".", "." >>
HeaderName == << "l", "c", "a" >>
HeaderName2 == << "x", "l", "c" >>
HashedName == << "l", "c", "a", "#", "0" >>
OtherName == << "c", "l" >>
\* a step directory with its header and one hashed data file
OneHeaderDir ==
    [exists |-> TRUE, entries |-> << Dot, DotDot, HashedName, HeaderName >>]
\* the input directory of a step: missing, empty, with one header, with two
\* headers, with no header
InputDirs ==
    { [exists |-> FALSE, entries |-> <<>>],
      [exists |-> TRUE, entries |-> << Dot, DotDot >>],
      OneHeaderDir,
      [exists |-> TRUE,
       entries |-> << HeaderName, Dot, HashedName, HeaderName2, DotDot >>],
      [exists |-> TRUE, entries |-> << Dot, OtherName, DotDot, HashedName >>] }
\* the call variable when no helper is being called on its own
NoCall == [fn |-> "none", pc |-> "done"]
\* the halo variable of a run that is past reading its halo file
NoHaloRead == [file |-> <<>>, haloPos |-> <<>>, haloIds |-> <<>>, pc |-> "done"]
\* step lists (step_strings), each with the z=0 step 499 in it
StepLists == { <<487, 499, 475>> }
\* positions of the records a rank reads in the pipeline
Positions == { Vec(1, 1, 1), Vec(-1, 1, 1) }
\* fixed-window runs of the pipeline: theta_cut, phi_cut
FixedWindows == { << <<126952, 253904>>, <<0, 228366>> >> }
\* halo runs of the pipeline: halo_pos, boxLength
HaloRuns == { << Vec(0, 2, 0), 8 >> }
\* the output directory of a step before the run: absent, empty, or holding
\* one entry of an earlier run
DirStates == { [exists |-> FALSE, stale |-> 0],
               [exists |-> TRUE, stale |-> 0],
               [exists |-> TRUE, stale |-> 1] }

(***************************************************************************)
(* processLC.cpp: the files of a step, in the order the code opens them,   *)
(* writes them and closes them.                                            *)
(***************************************************************************)
\* (a variant: a file for the step column is opened as well)
OpenOrderWithStep == << "id", "x", "y", "z", "vx", "vy", "vz", "a",
                        "rotation", "replication", "theta", "phi", "step" >>

OpenOrder == << "id", "x", "y", "z", "vx", "vy", "vz", "a",
                "rotation", "replication", "theta", "phi" >>
\* (a variant: the file of the scale factor is left open)
CloseOrderWithoutA == << "id", "x", "y", "z", "vx", "vy", "vz",
                         "theta", "phi", "rotation", "replication" >>

CloseOrder == << "id", "x", "y", "z", "vx", "vy", "vz", "a",
                 "theta", "phi", "rotation", "replication" >>
Fields == { OpenOrder[j] : j \in 1 .. Len(OpenOrder) }

\* step_subdir << out_dir << subdirPrefix << "Cutout" << step_strings[i],
\* without the out_dir and subdirPrefix every path shares
StepSubdir(stepString) == << "Cutout", stepString >>
\* <f>_file_name << step_subdir.str() << "/<f>." << step << ".bin"
FileName(f, stepString, step) == StepSubdir(stepString) \o << "/", f, ".", step, ".bin" >>

\* the seek / iwrite / wait sequence: the file, the buffer, the offset the
\* seek uses (offset_id or offset_posvel) and the size of the MPI datatype
WriteOrder ==
    << [file |-> "id", buf |-> "id", off |-> "id", dsize |-> SizeofId],
       [file |-> "x", buf |-> "x", off |-> "posvel", dsize |-> SizeofPosvel],
       [file |-> "y", buf |-> "y", off |-> "posvel", dsize |-> SizeofPosvel],
       [file |-> "z", buf |-> "z", off |-> "posvel", dsize |-> SizeofPosvel],
       [file |-> "vx", buf |-> "vx", off |-> "posvel", dsize |-> SizeofPosvel],
       [file |-> "vy", buf |-> "vy", off |-> "posvel", dsize |-> SizeofPosvel],
       [file |-> "vz", buf |-> "vz", off |-> "posvel", dsize |-> SizeofPosvel],
       [file |-> "theta", buf |-> "theta", off |-> "posvel", dsize |-> SizeofPosvel],
       [file |-> "phi", buf |-> "phi", off |-> "posvel", dsize |-> SizeofPosvel],
       [file |-> "a", buf |-> "a", off |-> "posvel", dsize |-> SizeofPosvel],
       [file |-> "id", buf |-> "id", off |-> "posvel", dsize |-> SizeofPosvel],
       [file |-> "rotation", buf |-> "rotation", off |-> "posvel",
        dsize |-> SizeofPosvel],
       [file |-> "replication", buf |-> "replication", off |-> "posvel",
        dsize |-> SizeofPosvel] >>

\* the size in bytes of an element of a column in memory
ElemSize(c) == IF c = "id" THEN SizeofId ELSE SizeofPosvel

\* the memory of a column as 4-byte words
RECURSIVE IdWords(_)
IdWords(ids) ==
    IF ids = <<>> THEN <<>>
    ELSE << ids[1][1], ids[1][2] >> \o IdWords(Tail(ids))
MemWords(c, col) == IF c = "id" THEN IdWords(col) ELSE col

\* a file after `words` are written at word offset o (a gap reads as 0)
FileWrite(data, o, words) ==
    IF Len(words) = 0 THEN data
    ELSE LET newLen == IF o + Len(words) > Len(data)
                       THEN o + Len(words) ELSE Len(data)
         IN  [j \in 1 .. newLen |->
                 IF j > o /\ j <= o + Len(words) THEN words[j - o]
                 ELSE IF j <= Len(data) THEN data[j] ELSE 0]

NoFile == [exists |-> FALSE, data |-> <<>>]
NewFile == [exists |-> TRUE, data |-> <<>>]

(***************************************************************************)
(* The state.                                                              *)
(***************************************************************************)
VARIABLES
    checked,        \* the build checks operator[] of std::vector (aborts)
    mode,           \* "fixed" or "halo": which processLC runs
    step_strings,   \* the steps to process
    halo_pos, boxLength,        \* inputs of the halo processLC
    k, B,           \* axis and angle of the rotation (halo)
    theta_cut, phi_cut,         \* the window, in arcseconds
    indirs,         \* per step index: the input directory of the step
    halo,           \* the halo file and what readHaloFile made of it
    call,           \* a call of a helper of util.cpp: arguments and outcome
    dirs,           \* per step index: the output directory
    files,          \* per step index and field: the output file
    pc,             \* per rank: where the rank is
    i,              \* per rank: index in step_strings of the step at hand
    file_name,      \* per rank: the header getLCFile found ("" if none)
    fld,            \* per rank: index in OpenOrder, WriteOrder or CloseOrder
    r,              \* per rank: Buffers_read
    w,              \* per rank: Buffers_write
    writes,         \* every write issued so far (history)
    sync            \* per rank: the step index of the last write barrier and
                    \* of the last all-gather the rank has left (history),
                    \* the write requests not yet waited for (reqs) and the
                    \* files the rank holds an open MPI_File for (open)

vars == << checked, mode, step_strings, halo_pos, boxLength, k, B, theta_cut,
           phi_cut, indirs, halo, call, dirs, files, pc, i, file_name, fld,
           r, w, writes, sync >>

params == << checked, mode, step_strings, halo_pos, boxLength, k, B,
             theta_cut, phi_cut, indirs, halo, call >>

StepIdx == 1 .. Len(step_strings)

InitRun ==
    /\ checked \in BOOLEAN
    /\ step_strings \in StepLists
    /\ \/ /\ mode = "fixed"
          /\ \E fw \in FixedWindows : theta_cut = fw[1] /\ phi_cut = fw[2]
          /\ halo_pos = Vec(0, 0, 0) /\ boxLength = 0
          /\ k = Vec(0, 0, 0) /\ B = 0
       \/ /\ mode = "halo"
          /\ \E hr \in HaloRuns :
                /\ halo_pos = hr[1] /\ boxLength = hr[2]
                /\ k = HaloAxis(hr[1]) /\ B = HaloAngle(hr[1])
                /\ theta_cut = HaloThetaCut(hr[1], hr[2])
                /\ phi_cut = HaloPhiCut(hr[1], hr[2])

Init ==
    /\ InitRun
    /\ indirs \in { d \in [1 .. Len(step_strings) -> InputDirs] :
                      \A s \in 1 .. Len(step_strings) :
                          step_strings[s] = SkipStep => d[s] = OneHeaderDir }
    /\ halo = NoHaloRead
    /\ call = NoCall
    /\ file_name = [rk \in Ranks |-> <<>>]
    /\ dirs \in { d \in [1 .. Len(step_strings) -> DirStates] :
                    \A s \in 1 .. Len(step_strings) :
                        step_strings[s] = SkipStep => ~d[s].exists }
    /\ files = [s \in 1 .. Len(step_strings) |-> [f \in Fields |-> NoFile]]
    /\ pc = [rk \in Ranks |-> "loop"]
    /\ i = [rk \in Ranks |-> 1]
    /\ fld = [rk \in Ranks |-> 0]
    /\ r = [rk \in Ranks |-> Buffers_read]
    /\ w = [rk \in Ranks |-> Buffers_write]
    /\ writes = {}
    /\ sync = [rk \in Ranks |-> [barrier |-> 0, gather |-> 0, reqs |-> {}, open |-> {}]]

(***************************************************************************)
(* Helpers of the actions.                                                 *)
(***************************************************************************)
\* (a variant: the call lets go whoever is in it, without waiting)
ParticipantsPresent(label) == {q \in Ranks : pc[q] = label}

\* the ranks a collective call on MPI_COMM_WORLD releases: all of them, once
\* all of them are in the call
Participants(label) ==
    IF \A q \in Ranks : pc[q] = label THEN Ranks ELSE {}

\* the entries readdir() finds besides "." and ".."
DirEntries(s) ==
    dirs[s].stale + Cardinality({f \in Fields : files[s][f].exists})

\* int cutout_size = int(w.a.size())
CutoutSize(wb) == Len(wb.a)

\* (a variant: only the rank's own slot is filled)
GatherOwnCount(rk) ==
    [j \in Ranks |-> IF j = rk THEN CutoutSize(w[j]) ELSE 0]

\* what MPI_Allgather leaves at &w.np_count[0] on every rank
GatherCounts(rk) == [j \in Ranks |-> CutoutSize(w[j])]

\* (a variant: an inclusive running sum)
RECURSIVE PrefixLoopInclusive(_, _, _)
PrefixLoopInclusive(off, cnt, j) ==
    IF j >= NumRanks THEN off
    ELSE PrefixLoopInclusive([off EXCEPT ![j] = off[j - 1] + cnt[j]], cnt, j + 1)

\* for(j=1; j < numranks; ++j) np_offset[j] = np_offset[j-1] + np_count[j-1]
RECURSIVE PrefixLoop(_, _, _)
PrefixLoop(off, cnt, j) ==
    IF j >= NumRanks THEN off
    ELSE PrefixLoop([off EXCEPT ![j] = off[j - 1] + cnt[j - 1]], cnt, j + 1)

\* (a variant: every rank seeks to the start of the file)
ByteOffsetStart(kind, wb, rk) == 0

\* MPI_Offset offset_posvel = sizeof(POSVEL_T) * w.np_offset[rank], and
\* offset_id = sizeof(ID_T) * w.np_offset[rank]
ByteOffset(kind, wb, rk) ==
    (IF kind = "id" THEN SizeofId ELSE SizeofPosvel) * wb.np_offset.store[rk]

\* MPI_File_iwrite(file, &buf[0], buf.size(), datatype): the bytes taken
\* from the buffer
WriteLen(e, wb) == Len(wb[e.buf]) * e.dsize

\* the words one write transfers
WriteWords(e, wb) ==
    SubSeq(MemWords(e.buf, wb[e.buf]), 1, WriteLen(e, wb) \div SizeofWord)

(***************************************************************************)
(* The actions: one per statement group of the step loop of processLC.     *)
(***************************************************************************)
\* (a variant: no step is skipped)
LoopHeadNoSkip(rk) ==
    /\ pc[rk] = "loop"
    /\ IF i[rk] > Len(step_strings)
       THEN pc' = [pc EXCEPT ![rk] = "returned"]
       ELSE pc' = [pc EXCEPT ![rk] = "getlc"]
    /\ UNCHANGED << params, file_name, dirs, files, i, fld, r, w, writes, sync >>

\* for (i ...) { step = atoi(...); if(step == 499){ continue; } ...
LoopHead(rk) ==
    /\ pc[rk] = "loop"
    /\ IF i[rk] > Len(step_strings)
       THEN pc' = [pc EXCEPT ![rk] = "returned"] /\ UNCHANGED i
       ELSE IF step_strings[i[rk]] = SkipStep
            THEN i' = [i EXCEPT ![rk] = @ + 1] /\ UNCHANGED pc
            ELSE pc' = [pc EXCEPT ![rk] = "getlc"] /\ UNCHANGED i
    /\ UNCHANGED << params, file_name, dirs, files, fld, r, w, writes, sync >>

\* string file_name; getLCFile(file_name_stream.str(), file_name): the value
\* returned is not looked at; MPI_Abort ends every rank of the group
GetLCFile(rk) ==
    /\ pc[rk] = "getlc"
    /\ LET res == getLCFile(indirs[i[rk]])
       IN  IF res.abort
           THEN /\ pc' = [q \in Ranks |-> MpiAbort(pc[q])]
                /\ UNCHANGED file_name
           ELSE /\ pc' = [pc EXCEPT ![rk] = "gio"]
                /\ file_name' = [file_name EXCEPT ![rk] = res.file]
    /\ UNCHANGED << params, dirs, files, i, fld, r, w, writes, sync >>

\* GenericIO GIO(MPI_COMM_WORLD, ...); GIO.openAndReadHeader(...): collective
\* (with no header found the path names the step directory itself, which
\* the reader cannot open as a snapshot: it raises an exception)
GioOpen ==
    /\ Participants("gio") # {}
    /\ pc' = [q \in Ranks |->
                 IF q \in Participants("gio")
                 THEN (IF file_name[q] = <<>> THEN "gio_failed" ELSE "barrier1")
                 ELSE pc[q]]
    /\ UNCHANGED << params, file_name, dirs, files, i, fld, r, w, writes, sync >>

\* (a variant: only rank 0 calls the barrier, the other ranks go on to read)
ReadBarrierRootOnly ==
    /\ \E q \in Ranks \ {0} :
          /\ pc[q] = "barrier1"
          /\ pc' = [pc EXCEPT ![q] = "read"]
    /\ UNCHANGED << params, file_name, dirs, files, i, fld, r, w, writes, sync >>

\* MPI_Barrier(MPI_COMM_WORLD) before the read
ReadBarrier ==
    /\ Participants("barrier1") # {}
    /\ pc' = [q \in Ranks |->
                 IF q \in Participants("barrier1") THEN "read" ELSE pc[q]]
    /\ UNCHANGED << params, file_name, dirs, files, i, fld, r, w, writes, sync >>

\* Np = GIO.readNumElems(); resize; GIO.readData(); resize to Np
ReadData(rk) ==
    /\ pc[rk] = "read"
    /\ \E pos \in SeqsUpTo(Positions, MaxNp) :
          r' = [r EXCEPT ![rk] =
                   Partition(i[rk], step_strings[i[rk]], rk, pos)]
    /\ pc' = [pc EXCEPT ![rk] = "dircheck"]
    /\ UNCHANGED << params, file_name, dirs, files, i, fld, w, writes, sync >>

\* opendir / readdir / throw runtime_error / mkdir
DirCheck(rk) ==
    /\ pc[rk] = "dircheck"
    /\ IF dirs[i[rk]].exists
       THEN /\ UNCHANGED dirs
            /\ IF DirEntries(i[rk]) + 2 > 2
               THEN pc' = [pc EXCEPT ![rk] = "threw"] /\ UNCHANGED fld
               ELSE /\ pc' = [pc EXCEPT ![rk] = "open"]
                    /\ fld' = [fld EXCEPT ![rk] = 1]
       ELSE /\ dirs' = [dirs EXCEPT ![i[rk]].exists = TRUE]
            /\ pc' = [pc EXCEPT ![rk] = "open"]
            /\ fld' = [fld EXCEPT ![rk] = 1]
    /\ UNCHANGED << params, file_name, files, i, r, w, writes, sync >>

\* MPI_File_open(..., MPI_MODE_CREATE | MPI_MODE_WRONLY, ...): the file is
\* created once some rank is in the call, at the latest when the call ends
FileCreate ==
    /\ \E rk \in Ranks :
          /\ pc[rk] = "open"
          /\ ~files[i[rk]][OpenOrder[fld[rk]]].exists
          /\ files' = [files EXCEPT ![i[rk]][OpenOrder[fld[rk]]] = NewFile]
    /\ UNCHANGED << params, file_name, dirs, pc, i, fld, r, w, writes, sync >>

\* the collective MPI_File_open returns on every rank
FileOpen ==
    /\ Participants("open") # {}
    /\ \A q \in Participants("open") : files[i[q]][OpenOrder[fld[q]]].exists
    /\ pc' = [q \in Ranks |->
                 IF q \in Participants("open") /\ fld[q] = Len(OpenOrder)
                 THEN "cut" ELSE pc[q]]
    /\ fld' = [q \in Ranks |->
                  IF q \in Participants("open")
                  THEN (IF fld[q] = Len(OpenOrder) THEN 0 ELSE fld[q] + 1)
                  ELSE fld[q]]
    /\ sync' = [q \in Ranks |->
                   IF q \in Participants("open")
                   THEN [sync[q] EXCEPT !.open = @ \cup {OpenOrder[fld[q]]}]
                   ELSE sync[q]]
    /\ UNCHANGED << params, file_name, dirs, files, i, r, w, writes >>

\* (a variant: the cut empties the partition it went through)
CutConsuming(rk) ==
    /\ pc[rk] = "cut"
    /\ w' = [w EXCEPT ![rk] =
                CutLoop(w[rk], r[rk], 1, Len(r[rk].x), mode, k, B,
                        << theta_cut, phi_cut >>)]
    /\ r' = [r EXCEPT ![rk] = Buffers_read]
    /\ pc' = [pc EXCEPT ![rk] = "barrier2"]
    /\ UNCHANGED << params, file_name, dirs, files, i, fld, writes, sync >>

\* (a variant: the cut widens the window it tested against)
CutWidening(rk) ==
    /\ pc[rk] = "cut"
    /\ w' = [w EXCEPT ![rk] =
                CutLoop(w[rk], r[rk], 1, Len(r[rk].x), mode, k, B,
                        << theta_cut, phi_cut >>)]
    /\ theta_cut' = << theta_cut[1] - 1, theta_cut[2] + 1 >>
    /\ pc' = [pc EXCEPT ![rk] = "barrier2"]
    /\ UNCHANGED << checked, mode, step_strings, halo_pos, boxLength, k, B,
                    phi_cut, indirs, halo, call, file_name, dirs, files, i,
                    fld, r, writes, sync >>

\* the cut loop over the Np records read
Cut(rk) ==
    /\ pc[rk] = "cut"
    /\ w' = [w EXCEPT ![rk] =
                CutLoop(w[rk], r[rk], 1, Len(r[rk].x), mode, k, B,
                        << theta_cut, phi_cut >>)]
    /\ pc' = [pc EXCEPT ![rk] = "barrier2"]
    /\ UNCHANGED << params, file_name, dirs, files, i, fld, r, writes, sync >>

\* MPI_Barrier(MPI_COMM_WORLD) before the offsets
WriteBarrier ==
    /\ Participants("barrier2") # {}
    /\ pc' = [q \in Ranks |->
                 IF q \in Participants("barrier2") THEN "clear" ELSE pc[q]]
    /\ sync' = [q \in Ranks |->
                   IF q \in Participants("barrier2")
                   THEN [sync[q] EXCEPT !.barrier = i[q]] ELSE sync[q]]
    /\ UNCHANGED << params, file_name, dirs, files, i, fld, r, w, writes >>

\* w.np_count.clear(); w.np_offset.clear(); w.np_offset[0] = 0;
\* operator[] on the emptied vector: a checked build aborts, an unchecked
\* build stores into the storage the vector still owns
ClearIndex(rk) ==
    /\ pc[rk] = "clear"
    /\ IF checked
       THEN pc' = [pc EXCEPT ![rk] = "aborted"] /\ UNCHANGED w
       ELSE /\ w' = [w EXCEPT
                       ![rk].np_count = VectorClear(@),
                       ![rk].np_offset =
                           [VectorClear(@) EXCEPT !.store[0] = 0]]
            /\ pc' = [pc EXCEPT ![rk] = "allgather"]
    /\ UNCHANGED << params, file_name, dirs, files, i, fld, r, writes, sync >>

\* MPI_Allgather(&cutout_size, 1, MPI_INT, &w.np_count[0], ...), then the
\* prefix loop, on every rank
Allgather ==
    /\ Participants("allgather") # {}
    /\ w' = [q \in Ranks |->
                IF q \in Participants("allgather")
                THEN [w[q] EXCEPT
                        !.np_count.store = GatherCounts(q),
                        !.np_offset.store =
                            PrefixLoop(w[q].np_offset.store, GatherCounts(q), 1)]
                ELSE w[q]]
    /\ pc' = [q \in Ranks |->
                 IF q \in Participants("allgather") THEN "iwrite" ELSE pc[q]]
    /\ fld' = [q \in Ranks |->
                  IF q \in Participants("allgather") THEN 1 ELSE fld[q]]
    /\ sync' = [q \in Ranks |->
                   IF q \in Participants("allgather")
                   THEN [sync[q] EXCEPT !.gather = i[q]] ELSE sync[q]]
    /\ UNCHANGED << params, file_name, dirs, files, i, r, writes >>

\* (a variant: the rank seeks and writes the next field without MPI_Wait on
\* the request of the field before; it waits on the last request only)
IWriteNoWait(rk) ==
    /\ pc[rk] = "iwrite"
    /\ LET e == WriteOrder[fld[rk]]
       IN  writes' = writes \cup
               { [step |-> i[rk], rank |-> rk, seq |-> fld[rk],
                  file |-> e.file,
                  off |-> ByteOffset(e.off, w[rk], rk),
                  len |-> WriteLen(e, w[rk]),
                  dsize |-> e.dsize] }
    /\ sync' = [sync EXCEPT ![rk].reqs = @ \cup {fld[rk]}]
    /\ IF fld[rk] = Len(WriteOrder)
       THEN pc' = [pc EXCEPT ![rk] = "wait"] /\ fld' = fld
       ELSE pc' = pc /\ fld' = [fld EXCEPT ![rk] = @ + 1]
    /\ UNCHANGED << params, file_name, dirs, files, i, r, w >>

\* MPI_File_seek(file, offset, MPI_SEEK_SET); MPI_File_iwrite(file, ...); the
\* request is outstanding until MPI_Wait
IWrite(rk) ==
    /\ pc[rk] = "iwrite"
    /\ LET e == WriteOrder[fld[rk]]
       IN  writes' = writes \cup
               { [step |-> i[rk], rank |-> rk, seq |-> fld[rk],
                  file |-> e.file,
                  off |-> ByteOffset(e.off, w[rk], rk),
                  len |-> WriteLen(e, w[rk]),
                  dsize |-> e.dsize] }
    /\ sync' = [sync EXCEPT ![rk].reqs = @ \cup {fld[rk]}]
    /\ pc' = [pc EXCEPT ![rk] = "wait"]
    /\ UNCHANGED << params, file_name, dirs, files, i, fld, r, w >>

\* (a variant: after the last write the rank filters again)
WaitThenCut(rk) ==
    /\ pc[rk] = "wait"
    /\ IF fld[rk] = Len(WriteOrder)
       THEN /\ pc' = [pc EXCEPT ![rk] = "cut"]
            /\ fld' = [fld EXCEPT ![rk] = 0]
       ELSE /\ pc' = [pc EXCEPT ![rk] = "iwrite"]
            /\ fld' = [fld EXCEPT ![rk] = @ + 1]
    /\ sync' = [sync EXCEPT ![rk].reqs = @ \ {fld[rk]}]
    /\ UNCHANGED << params, file_name, dirs, files, i, r, w, writes >>

\* MPI_Wait(&req, MPI_STATUS_IGNORE): the write has reached the file
Wait(rk) ==
    /\ pc[rk] = "wait"
    /\ LET e == WriteOrder[fld[rk]]
       IN  files' = [files EXCEPT ![i[rk]][e.file].data =
                        FileWrite(@, ByteOffset(e.off, w[rk], rk) \div SizeofWord,
                                  WriteWords(e, w[rk]))]
    /\ IF fld[rk] = Len(WriteOrder)
       THEN /\ pc' = [pc EXCEPT ![rk] = "close"]
            /\ fld' = [fld EXCEPT ![rk] = 1]
       ELSE /\ pc' = [pc EXCEPT ![rk] = "iwrite"]
            /\ fld' = [fld EXCEPT ![rk] = @ + 1]
    /\ sync' = [sync EXCEPT ![rk].reqs = @ \ {fld[rk]}]
    /\ UNCHANGED << params, file_name, dirs, i, r, w, writes >>

\* the collective MPI_File_close of one file; after the last one the loop
\* goes on to the next step
FileClose ==
    /\ Participants("close") # {}
    /\ pc' = [q \in Ranks |->
                 IF q \in Participants("close") /\ fld[q] = Len(CloseOrder)
                 THEN "loop" ELSE pc[q]]
    /\ fld' = [q \in Ranks |->
                  IF q \in Participants("close")
                  THEN (IF fld[q] = Len(CloseOrder) THEN 0 ELSE fld[q] + 1)
                  ELSE fld[q]]
    /\ i' = [q \in Ranks |->
                IF q \in Participants("close") /\ fld[q] = Len(CloseOrder)
                THEN i[q] + 1 ELSE i[q]]
    /\ sync' = [q \in Ranks |->
                   IF q \in Participants("close")
                   THEN [sync[q] EXCEPT !.open = @ \ {CloseOrder[fld[q]]}]
                   ELSE sync[q]]
    /\ UNCHANGED << params, file_name, dirs, files, r, w, writes >>

Next ==
    \/ \E rk \in Ranks : LoopHead(rk)
    \/ \E rk \in Ranks : GetLCFile(rk)
    \/ GioOpen
    \/ ReadBarrier
    \/ \E rk \in Ranks : ReadData(rk)
    \/ \E rk \in Ranks : DirCheck(rk)
    \/ FileCreate
    \/ FileOpen
    \/ \E rk \in Ranks : Cut(rk)
    \/ WriteBarrier
    \/ \E rk \in Ranks : ClearIndex(rk)
    \/ Allgather
    \/ \E rk \in Ranks : IWrite(rk)
    \/ \E rk \in Ranks : Wait(rk)
    \/ FileClose

Spec == Init /\ [][Next]_vars

\* every rank is a process of its own that runs whenever it can: a step that
\* stays possible is taken at some time
SpecLive == Spec /\ WF_vars(Next)

(***************************************************************************)
(* The cut on its own: one step's cut loop, over richer inputs than the    *)
(* pipeline draws (records on the bounds of the window, outside the first  *)
(* octant, every axis-aligned halo).  The ranks stand where the pipeline   *)
(* has them when the cut starts.                                           *)
(***************************************************************************)
CutPositions == { Vec(1, 1, 1), Vec(1, 2, 1), Vec(2, 1, 2),
                  Vec(0, 1, 1), Vec(1, -1, 1) }
CutThetaCuts == { <<173483, 237259>>, <<197048, 324000>>, <<0, 324000>> }
CutPhiCuts == { <<95634, 228366>>, <<0, 162000>>, <<0, 324000>> }
CutHalos == { Vec(2, 0, 0), Vec(0, 2, 0), Vec(0, 0, 2),
              Vec(-2, 0, 0), Vec(0, -2, 0), Vec(0, 0, -2) }
CutBoxLengths == { 2, 4, 8 }

\* a batch that already holds the record selected in an earlier step
EarlierBatch ==
    LET v == Vec(1, 1, 1)
    IN  PushBack(Buffers_write, Partition(1, 487, 0, << v >>), 1,
                 ThetaOf(v), PhiOf(v))

InitCut ==
    /\ checked = FALSE
    /\ step_strings = <<487, 475>>
    /\ \/ /\ mode = "fixed"
          /\ theta_cut \in CutThetaCuts /\ phi_cut \in CutPhiCuts
          /\ halo_pos = Vec(0, 0, 0) /\ boxLength = 0
          /\ k = Vec(0, 0, 0) /\ B = 0
       \/ /\ mode = "halo"
          /\ halo_pos \in CutHalos /\ boxLength \in CutBoxLengths
          /\ k = HaloAxis(halo_pos) /\ B = HaloAngle(halo_pos)
          /\ theta_cut = HaloThetaCut(halo_pos, boxLength)
          /\ phi_cut = HaloPhiCut(halo_pos, boxLength)
    /\ indirs = [s \in 1 .. 2 |-> OneHeaderDir]
    /\ halo = NoHaloRead
    /\ call = NoCall
    /\ file_name = [rk \in Ranks |-> HeaderName]
    /\ dirs = [s \in 1 .. 2 |-> [exists |-> TRUE, stale |-> 0]]
    /\ files = [s \in 1 .. 2 |-> [f \in Fields |-> NewFile]]
    /\ pc = [rk \in Ranks |-> "cut"]
    /\ i = [rk \in Ranks |-> 2]
    /\ fld = [rk \in Ranks |-> 0]
    /\ \E pos \in SeqsUpTo(CutPositions, MaxCutNp) :
          r = [rk \in Ranks |->
                  Partition(2, 475, rk, IF rk = 0 THEN pos ELSE <<>>)]
    /\ \E wb \in {Buffers_write, EarlierBatch} :
          w = [rk \in Ranks |-> IF rk = 0 THEN wb ELSE Buffers_write]
    /\ writes = {}
    /\ sync = [rk \in Ranks |-> [barrier |-> 0, gather |-> 0, reqs |-> {}, open |-> {}]]

NextCut == \E rk \in Ranks : Cut(rk)

SpecCut == InitCut /\ [][NextCut]_vars

(***************************************************************************)
(* readHaloFile on its own: the driver reads the halo file before the step *)
(* loop starts; the ranks have not entered processLC.                      *)
(***************************************************************************)
\* a row of the halo file, by its shape: "id x y", "id x y z", "id x y z e",
\* and "id x y word"
RowKinds == { "short", "good", "long", "text" }
HaloRow(kind, rr) ==
    LET id == << "h", rr >>
        num(c) == << "n", rr * 10 + c >>
    IN  CASE kind = "short" -> << id, num(1), num(2) >>
          [] kind = "good"  -> << id, num(1), num(2), num(3) >>
          [] kind = "long"  -> << id, num(1), num(2), num(3), num(4) >>
          [] kind = "text"  -> << id, num(1), num(2), << "w", rr >> >>
HaloFiles ==
    { [rr \in 1 .. Len(ks) |-> HaloRow(ks[rr], rr)] :
          ks \in SeqsUpTo(RowKinds, MaxRows) }

InitHalo ==
    /\ checked = FALSE
    /\ mode = "halo"
    /\ step_strings = <<487, 475>>
    /\ halo_pos = Vec(0, 0, 0) /\ boxLength = 0
    /\ k = Vec(0, 0, 0) /\ B = 0
    /\ theta_cut = <<0, 0>> /\ phi_cut = <<0, 0>>
    /\ indirs = [s \in 1 .. 2 |-> OneHeaderDir]
    /\ \E f \in HaloFiles :
          halo = [file |-> f, haloPos |-> <<>>, haloIds |-> <<>>, pc |-> "start"]
    /\ call = NoCall
    /\ dirs = [s \in 1 .. 2 |-> [exists |-> FALSE, stale |-> 0]]
    /\ files = [s \in 1 .. 2 |-> [f \in Fields |-> NoFile]]
    /\ pc = [rk \in Ranks |-> "loop"]
    /\ i = [rk \in Ranks |-> 1]
    /\ file_name = [rk \in Ranks |-> <<>>]
    /\ fld = [rk \in Ranks |-> 0]
    /\ r = [rk \in Ranks |-> Buffers_read]
    /\ w = [rk \in Ranks |-> Buffers_write]
    /\ writes = {}
    /\ sync = [rk \in Ranks |-> [barrier |-> 0, gather |-> 0, reqs |-> {}, open |-> {}]]

\* readHaloFile(haloFileName, haloPos, haloIds), as every rank runs it on the
\* same file
ReadHaloFile ==
    /\ halo.pc = "start"
    /\ LET res == readHaloFile(halo.file)
       IN  halo' = [halo EXCEPT !.haloPos = res.haloPos,
                                !.haloIds = res.haloIds,
                                !.pc = IF res.abort THEN "mpi_aborted" ELSE "done"]
    /\ UNCHANGED << checked, mode, step_strings, halo_pos, boxLength, k, B,
                    theta_cut, phi_cut, indirs, call, dirs, files, pc, i,
                    file_name, fld, r, w, writes, sync >>

NextHalo == ReadHaloFile

SpecHalo == InitHalo /\ [][NextHalo]_vars

(***************************************************************************)
(* util.cpp: the vector and matrix helpers called with operands of any     *)
(* size.  What is followed here is the size test of each helper and the    *)
(* indices it reads: the outcome is whether it called MPI_Abort and        *)
(* whether it read an element at or past the end of an operand.            *)
(***************************************************************************)
\* the state of everything but `call` while a helper is called on its own
PipelineIdle ==
    /\ checked = FALSE
    /\ mode = "halo"
    /\ step_strings = <<487, 475>>
    /\ halo_pos = Vec(0, 0, 0) /\ boxLength = 0
    /\ k = Vec(0, 0, 0) /\ B = 0
    /\ theta_cut = <<0, 0>> /\ phi_cut = <<0, 0>>
    /\ indirs = [s \in 1 .. 2 |-> OneHeaderDir]
    /\ halo = NoHaloRead
    /\ dirs = [s \in 1 .. 2 |-> [exists |-> FALSE, stale |-> 0]]
    /\ files = [s \in 1 .. 2 |-> [f \in Fields |-> NoFile]]
    /\ pc = [rk \in Ranks |-> "loop"]
    /\ i = [rk \in Ranks |-> 1]
    /\ file_name = [rk \in Ranks |-> <<>>]
    /\ fld = [rk \in Ranks |-> 0]
    /\ r = [rk \in Ranks |-> Buffers_read]
    /\ w = [rk \in Ranks |-> Buffers_write]
    /\ writes = {}
    /\ sync = [rk \in Ranks |-> [barrier |-> 0, gather |-> 0, reqs |-> {}, open |-> {}]]

pipeline == << checked, mode, step_strings, halo_pos, boxLength, k, B,
               theta_cut, phi_cut, indirs, halo, dirs, files, pc, i,
               file_name, fld, r, w, writes, sync >>

\* a vector<float> of n elements, a matrix of rows x cols elements
VecOfSize(n) == [j \in 1 .. n |-> 1]
MatOfSize(rows, cols) == [n \in 1 .. rows |-> VecOfSize(cols)]

\* some index of idxs (counted from 0) is not an element of a vector of
\* `size` elements
ReadsPast(size, idxs) == \E j \in idxs : j >= size

Outcome(abort, oob) == [abort |-> abort, oob |-> oob]

\* dot(v1, v2): the size test, then v1[i] and v2[i] for i < n1
dotSizes(v1, v2) ==
    LET n1 == Len(v1)
        n2 == Len(v2)
    IN  IF n1 # n2 THEN Outcome(TRUE, FALSE)
        ELSE Outcome(FALSE, ReadsPast(n1, 0 .. (n1 - 1))
                              \/ ReadsPast(n2, 0 .. (n1 - 1)))

\* cross(v1, v2, v1xv2): the size test, then elements 0, 1, 2 of both
crossSizes(v1, v2) ==
    LET n1 == Len(v1)
        n2 == Len(v2)
    IN  IF n1 # n2 THEN Outcome(TRUE, FALSE)
        ELSE Outcome(FALSE, ReadsPast(n1, {0, 1, 2}) \/ ReadsPast(n2, {0, 1, 2}))

\* normCross(a, b, k): the size test, cross(a, b, axb), then axb[i] for i < na
normCrossSizes(a, b) ==
    LET na == Len(a)
        nb == Len(b)
    IN  IF na # nb THEN Outcome(TRUE, FALSE)
        ELSE Outcome(crossSizes(a, b).abort,
                     crossSizes(a, b).oob \/ ReadsPast(3, 0 .. (na - 1)))

\* vecPairAngle(v1, v2): no size test; inner_product(v1.begin(), v1.end(),
\* v2.begin(), 0.0) reads as many elements of v2 as v1 has
vecPairAngleSizes(v1, v2) ==
    LET n1 == Len(v1)
        n2 == Len(v2)
    IN  Outcome(FALSE, ReadsPast(n2, 0 .. (n1 - 1)))

\* matVecMul(matrix, vec): the test vecSize != rows, then matrix[n][m] and
\* vec[m] for n < rows, m < cols
matVecMulSizes(matrix, vec) ==
    LET vecSize == Len(vec)
        rows == Len(matrix)
        cols == Len(matrix[1])
    IN  IF vecSize # rows THEN Outcome(TRUE, FALSE)
        ELSE Outcome(FALSE, ReadsPast(vecSize, 0 .. (cols - 1)))

\* squareMat(matrix): no size test; matrix[n][y] and matrix[y][m] for
\* n < rows, m < cols, y < rows
squareMatSizes(matrix) ==
    LET rows == Len(matrix)
        cols == Len(matrix[1])
    IN  Outcome(FALSE, ReadsPast(cols, 0 .. (rows - 1))
                         \/ ReadsPast(rows, 0 .. (rows - 1)))

VecSizes == 1 .. MaxDim

InitVec ==
    /\ PipelineIdle
    /\ \/ \E f \in {"dot", "cross", "normCross", "vecPairAngle"} :
          \E n1 \in VecSizes : \E n2 \in VecSizes :
              call = [fn |-> f, pc |-> "start", v1 |-> VecOfSize(n1),
                      v2 |-> VecOfSize(n2), out |-> Outcome(FALSE, FALSE)]
       \/ \E rows \in VecSizes : \E cols \in VecSizes : \E n \in VecSizes :
              call = [fn |-> "matVecMul", pc |-> "start",
                      v1 |-> MatOfSize(rows, cols), v2 |-> VecOfSize(n),
                      out |-> Outcome(FALSE, FALSE)]
       \/ \E rows \in VecSizes : \E cols \in VecSizes :
              call = [fn |-> "squareMat", pc |-> "start",
                      v1 |-> MatOfSize(rows, cols), v2 |-> <<>>,
                      out |-> Outcome(FALSE, FALSE)]

\* the call returns, or ends in MPI_Abort
Returned(res) ==
    call' = [call EXCEPT !.out = res,
                         !.pc = IF res.abort THEN "mpi_aborted" ELSE "done"]

CallDot ==
    /\ call.fn = "dot" /\ call.pc = "start"
    /\ Returned(dotSizes(call.v1, call.v2))
    /\ UNCHANGED pipeline

CallCross ==
    /\ call.fn = "cross" /\ call.pc = "start"
    /\ Returned(crossSizes(call.v1, call.v2))
    /\ UNCHANGED pipeline

CallNormCross ==
    /\ call.fn = "normCross" /\ call.pc = "start"
    /\ Returned(normCrossSizes(call.v1, call.v2))
    /\ UNCHANGED pipeline

CallVecPairAngle ==
    /\ call.fn = "vecPairAngle" /\ call.pc = "start"
    /\ Returned(vecPairAngleSizes(call.v1, call.v2))
    /\ UNCHANGED pipeline

CallMatVecMul ==
    /\ call.fn = "matVecMul" /\ call.pc = "start"
    /\ Returned(matVecMulSizes(call.v1, call.v2))
    /\ UNCHANGED pipeline

CallSquareMat ==
    /\ call.fn = "squareMat" /\ call.pc = "start"
    /\ Returned(squareMatSizes(call.v1))
    /\ UNCHANGED pipeline

NextVec ==
    \/ CallDot
    \/ CallCross
    \/ CallNormCross
    \/ CallVecPairAngle
    \/ CallMatVecMul
    \/ CallSquareMat

SpecVec == InitVec /\ [][NextVec]_vars

(***************************************************************************)
(* The rotation of the halo processLC on its own: the setup before the     *)
(* step loop (radius, axis, angle, window) for a halo on a coordinate      *)
(* axis, then rotate() applied to the halo position and to a vector.       *)
(***************************************************************************)
RotHalos == CutHalos
RotVectors == { Vec(a, b, c) : a \in -1 .. MaxCoord, b \in -1 .. MaxCoord,
                               c \in -1 .. MaxCoord }

InitRot ==
    /\ PipelineIdle
    /\ \E p \in RotHalos : \E L \in CutBoxLengths : \E v \in RotVectors :
          call = [fn |-> "rotate", pc |-> "start", p |-> p, L |-> L, v |-> v,
                  k |-> Vec(0, 0, 0), B |-> 0,
                  theta_cut |-> <<0, 0>>, phi_cut |-> <<0, 0>>,
                  p_rot |-> Vec(0, 0, 0), v_rot |-> Vec(0, 0, 0)]

\* halo_r, rotated_pos, normCross, vecPairAngle, dtheta, theta_cut, phi_cut
HaloSetup ==
    /\ call.fn = "rotate" /\ call.pc = "start"
    /\ call' = [call EXCEPT !.pc = "setup",
                            !.k = HaloAxis(call.p),
                            !.B = HaloAngle(call.p),
                            !.theta_cut = HaloThetaCut(call.p, call.L),
                            !.phi_cut = HaloPhiCut(call.p, call.L)]
    /\ UNCHANGED pipeline

\* rotate(k, B, v, v_rot), for the halo position and for the vector v
RotateVec ==
    /\ call.fn = "rotate" /\ call.pc = "setup"
    /\ call' = [call EXCEPT !.pc = "done",
                            !.p_rot = rotate(call.k, call.B, call.p),
                            !.v_rot = rotate(call.k, call.B, call.v)]
    /\ UNCHANGED pipeline

NextRot ==
    \/ HaloSetup
    \/ RotateVec

SpecRot == InitRot /\ [][NextRot]_vars

(***************************************************************************)
(* getLCSteps (util.cpp): the steps of a lightcone output directory that   *)
(* are handed to the pipeline.  A subdirectory name is a sequence of       *)
(* characters; the directory is the sequence of names readdir() returns.   *)
(***************************************************************************)
MaxStep == 5

DigitChars == << "0", "1", "2", "3", "4", "5", "6", "7", "8", "9" >>

\* isdigit(c)
isdigit(c) == \E d \in 1 .. 10 : DigitChars[d] = c

DigitValue(c) == (CHOOSE d \in 1 .. 10 : DigitChars[d] = c) - 1

\* atoi(s): the value of the leading digits of s, 0 when there is none
RECURSIVE AtoiLoop(_, _)
AtoiLoop(s, acc) ==
    IF s = <<>> \/ ~isdigit(Head(s)) THEN acc
    ELSE AtoiLoop(Tail(s), acc * 10 + DigitValue(Head(s)))

atoi(s) == AtoiLoop(s, 0)

\* ostringstream << n, for n >= 0
RECURSIVE IntToString(_)
IntToString(n) ==
    IF n < 10 THEN << DigitChars[n + 1] >>
    ELSE IntToString(n \div 10) \o << DigitChars[(n % 10) + 1] >>

\* getLCSubdirs: the names that contain "lc", in readdir order; nothing when
\* opendir fails (the return value is dropped by getLCSteps)
getLCSubdirs(d) ==
    IF ~d.exists THEN <<>>
    ELSE SelectSeq(d.entries, LAMBDA name : Find(name, << "l", "c" >>))

\* the step of one subdirectory name: atoi from its first digit on; a name
\* without a digit gives no step
RECURSIVE StepOfName(_, _)
StepOfName(name, j) ==
    IF j > Len(name) THEN <<>>
    ELSE IF isdigit(name[j]) THEN << atoi(SubSeq(name, j, Len(name))) >>
    ELSE StepOfName(name, j + 1)

RECURSIVE ExtractSteps(_)
ExtractSteps(subdirs) ==
    IF subdirs = <<>> THEN <<>>
    ELSE StepOfName(Head(subdirs), 1) \o ExtractSteps(Tail(subdirs))

\* sort(stepsAvail.begin(), stepsAvail.end())
stepsAvail(d) ==
    SortSeq(ExtractSteps(getLCSubdirs(d)), LAMBDA a, b : a < b)

\* the loop over stepsAvail from its largest element down; kk is the loop
\* index k, out the strings pushed so far
RECURSIVE StepsLoop(_, _, _, _, _, _)
StepsLoop(avail, kk, hitMaxStep, out, maxStep, minStep) ==
    IF kk >= Len(avail) THEN out
    ELSE LET s == avail[Len(avail) - kk] IN
         IF hitMaxStep = 0
         THEN StepsLoop(avail, kk + 1, IF s < maxStep THEN 1 ELSE 0, out,
                        maxStep, minStep)
         ELSE LET pushed == Append(out, IntToString(s)) IN
              IF s <= minStep THEN pushed
              ELSE StepsLoop(avail, kk + 1, hitMaxStep, pushed,
                             maxStep, minStep)

getLCSteps(maxStep, minStep, d) ==
    StepsLoop(stepsAvail(d), 0, 0, <<>>, maxStep, minStep)

\* the subdirectory names a lightcone output directory is drawn from, in the
\* order readdir returns them: steps 3, 1, 12, 2, 4 and 5, a name without
\* "lc" and a name without a digit
StepDirPool ==
    << << "l", "c", "3" >>,
       << "x", "7" >>,
       << "l", "c", "1" >>,
       << "l", "c", "1", "2" >>,
       << "l", "c" >>,
       << "l", "c", "G", "2" >>,
       << "l", "c", "4" >>,
       << "l", "c", "5" >> >>

StepDirs ==
    { [exists |-> FALSE, entries |-> <<>>] } \cup
    { [exists |-> TRUE,
       entries |-> << Dot, DotDot >> \o
                   SelectSeq(StepDirPool, LAMBDA name : name \in S)] :
      S \in SUBSET { StepDirPool[n] : n \in 1 .. Len(StepDirPool) } }

InitSteps ==
    /\ PipelineIdle
    /\ \E d \in StepDirs, lo \in 0 .. MaxStep, hi \in 0 .. MaxStep :
          /\ lo <= hi
          /\ call = [fn |-> "getLCSteps", pc |-> "start", dir |-> d,
                     maxStep |-> hi, minStep |-> lo,
                     stepsAvail |-> <<>>, step_strings |-> <<>>]

GetLCSteps ==
    /\ call.fn = "getLCSteps" /\ call.pc = "start"
    /\ call' = [call EXCEPT !.pc = "done",
                   !.stepsAvail = stepsAvail(call.dir),
                   !.step_strings =
                       getLCSteps(call.maxStep, call.minStep, call.dir)]
    /\ UNCHANGED pipeline

NextSteps == GetLCSteps

SpecSteps == InitSteps /\ [][NextSteps]_vars

(***************************************************************************)
(* normCross on its own, on three-dimensional vectors of small integer     *)
(* components.  The pairs are those whose cross product lies along a       *)
(* coordinate axis (the zero vector included), so that its magnitude and   *)
(* the quotients are whole numbers.                                        *)
(***************************************************************************)
MaxComp == 2

NormCrossVectors == { Vec(a, b, c) : a, b, c \in (0 - MaxComp) .. MaxComp }

AlongAxis(v) == Cardinality({ n \in 1 .. 3 : v[n] # 0 }) <= 1

NormCrossPairs ==
    { p \in NormCrossVectors \X NormCrossVectors : AlongAxis(cross(p[1], p[2])) }

InitNorm ==
    /\ PipelineIdle
    /\ \E p \in NormCrossPairs :
          call = [fn |-> "normCross", pc |-> "start", a |-> p[1], b |-> p[2],
                  k |-> <<>>]

\* normCross(a, b, k): three push_back on k
NormCross ==
    /\ call.fn = "normCross" /\ call.pc = "start"
    /\ call' = [call EXCEPT !.pc = "done",
                            !.k = @ \o normCross(call.a, call.b)]
    /\ UNCHANGED pipeline

NextNorm == NormCross

SpecNorm == InitNorm /\ [][NextNorm]_vars

(***************************************************************************)
(* The offsets of processLC.cpp on their own, with the width of the types. *)
(* np_count and np_offset are vector<int>, MPI_Offset is twice as wide as  *)
(* int.  The widths are scaled down: int has IntBits bits (32 in the       *)
(* build), MPI_Offset 2 * IntBits (64 in the build).  Signed overflow of   *)
(* int is undefined: the sum wraps, or the build traps and the run ends.   *)
(***************************************************************************)
IntBits == 6
OffRanks == 3

IntMax == 2 ^ (IntBits - 1) - 1
IntMin == 0 - 2 ^ (IntBits - 1)

\* a + b does not fit an int
IntOverflows(a, b) == a + b > IntMax \/ a + b < IntMin

\* a + b as the wrapping add instruction leaves it
IntAdd(a, b) ==
    LET s == a + b
    IN  IF s > IntMax THEN s - 2 ^ IntBits
        ELSE IF s < IntMin THEN s + 2 ^ IntBits
        ELSE s

\* for(j=1; j < numranks; ++j) np_offset[j] = np_offset[j-1] + np_count[j-1],
\* in int
RECURSIVE PrefixLoopInt(_, _, _)
PrefixLoopInt(off, cnt, j) ==
    IF j >= OffRanks THEN off
    ELSE PrefixLoopInt([off EXCEPT ![j] = IntAdd(off[j - 1], cnt[j - 1])],
                       cnt, j + 1)

\* some addition of the prefix loop overflows
PrefixOverflows(cnt) ==
    LET off == PrefixLoopInt([j \in 0 .. (OffRanks - 1) |-> 0], cnt, 1)
    IN  \E j \in 1 .. (OffRanks - 1) : IntOverflows(off[j - 1], cnt[j - 1])

\* sizeof(T) * w.np_offset[rank]: the int is converted to size_t, the
\* product is taken modulo 2^(2*IntBits) and read as a signed MPI_Offset
OffsetOf(size, elems) ==
    LET M == 2 ^ (2 * IntBits)
        u == (size * ((elems + M) % M)) % M
    IN  IF u >= M \div 2 THEN u - M ELSE u

\* the counts the ranks gather: each fits an int
CountValues == { 0, 1, IntMax \div 2, IntMax \div 2 + 1, IntMax }

InitOffsets ==
    /\ PipelineIdle
    /\ \E cnt \in [0 .. (OffRanks - 1) -> CountValues] :
       \E rk \in 0 .. (OffRanks - 1) :
          call = [fn |-> "offsets", pc |-> "start", rank |-> rk,
                  np_count |-> cnt,
                  np_offset |-> [j \in 0 .. (OffRanks - 1) |-> 0],
                  offset_posvel |-> 0, offset_id |-> 0]

\* np_offset[0] = 0 and the prefix loop
PrefixSum ==
    /\ call.fn = "offsets" /\ call.pc = "start"
    /\ \/ call' = [call EXCEPT
                     !.pc = "summed",
                     !.np_offset = PrefixLoopInt(@, call.np_count, 1)]
       \/ /\ PrefixOverflows(call.np_count)
          /\ call' = [call EXCEPT !.pc = "aborted"]
    /\ UNCHANGED pipeline

\* MPI_Offset offset_posvel = sizeof(POSVEL_T) * w.np_offset[rank]; offset_id
ByteOffsets ==
    /\ call.fn = "offsets" /\ call.pc = "summed"
    /\ call' = [call EXCEPT
                  !.pc = "done",
                  !.offset_posvel =
                      OffsetOf(SizeofPosvel, call.np_offset[call.rank]),
                  !.offset_id = OffsetOf(SizeofId, call.np_offset[call.rank])]
    /\ UNCHANGED pipeline

NextOffsets == PrefixSum \/ ByteOffsets

SpecOffsets == InitOffsets /\ [][NextOffsets]_vars

(***************************************************************************)
(* The claims.                                                             *)
(***************************************************************************)
\* the rank holds the counts and offsets of the step at hand
PostExchange(rk) == pc[rk] \in {"iwrite", "wait", "close"}

\* every rank has finished the writes of step index s and none has left it
AllWritten(s) == \A q \in Ranks : i[q] = s /\ pc[q] = "close"

RECURSIVE SumCounts(_, _)
SumCounts(cnt, n) == IF n < 0 THEN 0 ELSE cnt[n] + SumCounts(cnt, n - 1)

\* the buffers of field f of ranks 0 .. q, one after the other, as words
RECURSIVE ConcatRanks(_, _)
ConcatRanks(f, q) ==
    IF q < 0 THEN <<>>
    ELSE ConcatRanks(f, q - 1) \o MemWords(f, w[q][f])

\* the angles the cut tests for record n of rank rk
TestedVec(rk, n) ==
    LET v == Vec(r[rk].x[n], r[rk].y[n], r[rk].z[n])
    IN  IF mode = "halo" THEN rotate(k, B, v) ELSE v

\* the number of rows of rank rk's batch that carry the id of record n
RowsOf(rk, n) ==
    Cardinality({j \in 1 .. Len(w[rk].id) : w[rk].id[j] = r[rk].id[n]})

\* C1: in every step and every field file, the byte ranges written by two
\* distinct ranks do not overlap.
C1_DisjointRanges ==
    \A a \in writes : \A b \in writes :
        (a.step = b.step /\ a.file = b.file /\ a.rank # b.rank)
            => \/ a.len = 0
               \/ b.len = 0
               \/ a.off + a.len <= b.off
               \/ b.off + b.len <= a.off

\* C2: once a step's writes are done, every field file of the step is the
\* concatenation, in ascending rank order, of the ranks' buffers of the field.
C2_RankMajorFile ==
    \A s \in StepIdx :
        AllWritten(s) =>
            \A f \in Fields : files[s][f].data = ConcatRanks(f, NumRanks - 1)

\* C3: after the exchange, on every rank, offset[0] = 0, offset[j] =
\* offset[j-1] + count[j-1], count[j] is the size of rank j's batch, and the
\* offsets do not decrease.
C3_ExclusivePrefixSum ==
    \A rk \in Ranks :
        PostExchange(rk) =>
            LET cnt == w[rk].np_count.store
                off == w[rk].np_offset.store
            IN  /\ off[0] = 0
                /\ \A j \in 1 .. (NumRanks - 1) :
                      off[j] = off[j - 1] + cnt[j - 1] /\ off[j - 1] <= off[j]
                /\ \A j \in Ranks : cnt[j] = Len(w[j].a)

C3_Witness ==
    \E rk \in Ranks :
        /\ PostExchange(rk)
        /\ w[rk].np_count.store[0] > 0
        /\ w[rk].np_count.store[NumRanks - 1] > 0
        /\ w[rk].np_offset.store[NumRanks - 1] > 0

\* C4: a record of the partition is appended to the batch (once) exactly when
\* x > 0, y > 0, z > 0 and its theta and phi (of the rotated position in halo
\* mode) lie strictly inside the window.
C4_StrictWindowFilter ==
    \A rk \in Ranks :
        pc[rk] = "barrier2" =>
            \A n \in 1 .. Len(r[rk].x) :
                LET t == TestedVec(rk, n)
                    selected ==
                        /\ r[rk].x[n] > 0 /\ r[rk].y[n] > 0 /\ r[rk].z[n] > 0
                        /\ theta_cut[1] < ThetaOf(t) /\ ThetaOf(t) < theta_cut[2]
                        /\ phi_cut[1] < PhiOf(t) /\ PhiOf(t) < phi_cut[2]
                IN  RowsOf(rk, n) = IF selected THEN 1 ELSE 0

\* a cut that kept one record and dropped one sitting on a bound of the window
C4_Witness ==
    /\ pc[0] = "barrier2"
    /\ \E n \in 1 .. Len(r[0].x) : RowsOf(0, n) = 1
    /\ \E n \in 1 .. Len(r[0].x) :
          /\ r[0].x[n] > 0 /\ r[0].y[n] > 0 /\ r[0].z[n] > 0
          /\ \/ ThetaOf(TestedVec(0, n)) \in {theta_cut[1], theta_cut[2]}
             \/ PhiOf(TestedVec(0, n)) \in {phi_cut[1], phi_cut[2]}
          /\ RowsOf(0, n) = 0

\* C5: after the cut of a step, a rank's batch holds only records of that
\* step's partition: every row of the batch is a record just read.
C5_BatchOfThisStepOnly ==
    \A rk \in Ranks :
        (pc[rk] \in {"barrier2", "clear", "allgather"} \/ PostExchange(rk)) =>
            \A j \in 1 .. Len(w[rk].id) :
                \E n \in 1 .. Len(r[rk].id) : r[rk].id[n] = w[rk].id[j]

\* C6: where count[] and offset[] are populated and read, both have as many
\* elements as there are ranks.
C6_LayoutArraysSized ==
    \A rk \in Ranks :
        (pc[rk] = "allgather" \/ PostExchange(rk)) =>
            /\ w[rk].np_count.size = NumRanks
            /\ w[rk].np_offset.size = NumRanks

\* C7: every write to a field's file starts at offset[rank] times the field's
\* element size, carries count[rank] elements, and uses the field's element
\* width.
C7_WriteGeometry ==
    \A wr \in writes :
        (wr.step = i[wr.rank] /\ PostExchange(wr.rank)) =>
            /\ wr.off = w[wr.rank].np_offset.store[wr.rank] * ElemSize(wr.file)
            /\ wr.len = w[wr.rank].np_count.store[wr.rank] * ElemSize(wr.file)
            /\ wr.dsize = ElemSize(wr.file)

\* C8: once a step's writes are done, the length of every field file of the
\* step, in elements, is the sum of the counts.
C8_FileLength ==
    \A s \in StepIdx :
        AllWritten(s) =>
            \A f \in Fields : \A rk \in Ranks :
                Len(files[s][f].data) * SizeofWord =
                    ElemSize(f) * SumCounts(w[rk].np_count.store, NumRanks - 1)

C8_Witness ==
    \E s \in StepIdx :
        /\ AllWritten(s)
        /\ \A rk \in Ranks : w[0].np_count.store[rk] > 0
        /\ Len(files[s]["id"].data) > 0

\* C9: no rank has issued a write of a step unless every rank has left the
\* write barrier and the all-gather of that step.
C9_WritesAfterExchange ==
    \A wr \in writes : \A q \in Ranks :
        sync[q].barrier >= wr.step /\ sync[q].gather >= wr.step

\* a rank has a write under way while another has not issued any in the step
C9_Witness ==
    \E rk \in Ranks : \E q \in Ranks :
        /\ pc[rk] = "wait" /\ i[q] = i[rk]
        /\ pc[q] = "iwrite" /\ fld[q] = 1
        /\ \E wr \in writes : wr.step = i[rk] /\ wr.rank = rk

\* C10: after the exchange, all ranks hold the same count[] and the same
\* offset[], and count[j] is the size of rank j's own batch.
C10_SameLayoutEverywhere ==
    \A rk \in Ranks : \A q \in Ranks :
        (PostExchange(rk) /\ PostExchange(q)) =>
            /\ w[rk].np_count.store = w[q].np_count.store
            /\ w[rk].np_offset.store = w[q].np_offset.store
            /\ w[rk].np_count.store[q] = CutoutSize(w[q])

C10_Witness ==
    /\ \A rk \in Ranks : PostExchange(rk) /\ CutoutSize(w[rk]) > 0
    /\ \E rk \in Ranks : w[rk].np_offset.store[rk] > 0

\* the rank is past the directory check of the step at hand
PastDirCheck(rk) ==
    pc[rk] \in {"open", "cut", "barrier2", "clear", "allgather", "iwrite",
                "wait", "close", "aborted"}

\* C11: a rank fails at the directory check of a step exactly when the step's
\* output directory existed with an entry in it before the step, and then no
\* output file of the step has been opened; with the directory empty or
\* absent the rank goes on, the directory being there.
C11_DirCheckOutcome ==
    \A rk \in Ranks :
        /\ pc[rk] = "threw" =>
               /\ dirs[i[rk]].stale > 0
               /\ \A f \in Fields : ~files[i[rk]][f].exists
        /\ PastDirCheck(rk) =>
               dirs[i[rk]].exists /\ dirs[i[rk]].stale = 0

\* the rank has ended: returned from processLC, or ended by an exception, by
\* a failed operator[] check, or by MPI_Abort
Stopped(rk) ==
    pc[rk] \in {"returned", "threw", "gio_failed", "aborted", "mpi_aborted"}

\* C12: once some rank has detected a fatal condition (the exception of the
\* directory check or of the reader, or an MPI_Abort), every rank stops at
\* some time: none stays blocked in a collective call.
C12_GroupTerminates ==
    (\E rk \in Ranks : pc[rk] \in {"threw", "gio_failed", "mpi_aborted"})
        ~> (\A rk \in Ranks : Stopped(rk))

\* C13: when a rank has detected a fatal error in a step (it threw, the reader
\* failed, or MPI_Abort was called), no field file of that step exists.
C13_NoHalfWrittenStep ==
    \A rk \in Ranks :
        pc[rk] \in {"threw", "gio_failed", "mpi_aborted"} =>
            \A f \in Fields : ~files[i[rk]][f].exists

\* file f after rank rk's writes number j and later, issued on their own
RECURSIVE RankWrites(_, _, _, _)
RankWrites(data, f, rk, j) ==
    IF j > Len(WriteOrder) THEN data
    ELSE LET e == WriteOrder[j]
         IN  RankWrites(IF e.file = f
                        THEN FileWrite(data,
                                 ByteOffset(e.off, w[rk], rk) \div SizeofWord,
                                 WriteWords(e, w[rk]))
                        ELSE data,
                        f, rk, j + 1)

\* file f when ranks 0 .. q write one after the other
RECURSIVE InRankOrder(_, _)
InRankOrder(f, q) ==
    IF q < 0 THEN <<>> ELSE RankWrites(InRankOrder(f, q - 1), f, q, 1)

\* C14: whatever the interleaving of the ranks' writes, the files of a step
\* hold, once the writes are done, what they hold in the run where the ranks
\* write one after the other: the bytes depend on the inputs only.
C14_SameBytesEveryRun ==
    \A s \in StepIdx :
        AllWritten(s) =>
            \A f \in Fields : files[s][f].data = InRankOrder(f, NumRanks - 1)

\* the columns the cut copies from the partition
CopiedCols == {"x", "y", "z", "vx", "vy", "vz", "a", "id", "rotation",
               "replication"}

\* row j of rank rk's batch is record n of its partition, in every column
RowIs(rk, j, n) ==
    /\ \A c \in CopiedCols : w[rk][c][j] = r[rk][c][n]
    /\ w[rk].theta[j] = ThetaOf(TestedVec(rk, n))
    /\ w[rk].phi[j] = PhiOf(TestedVec(rk, n))

\* C15: two records of a partition that the cut both selects stand in every
\* column of the batch in the order they have in the partition.
C15_StableFilter ==
    \A rk \in Ranks :
        pc[rk] = "barrier2" =>
            \A n1 \in 1 .. Len(r[rk].x) : \A n2 \in 1 .. Len(r[rk].x) :
                (n1 < n2 /\ RowsOf(rk, n1) > 0 /\ RowsOf(rk, n2) > 0) =>
                    \E j1 \in 1 .. Len(w[rk].a) : \E j2 \in 1 .. Len(w[rk].a) :
                        j1 < j2 /\ RowIs(rk, j1, n1) /\ RowIs(rk, j2, n2)

\* a cut that selected two records at different positions
C15_Witness ==
    /\ pc[0] = "barrier2"
    /\ \E n1 \in 1 .. Len(r[0].x) : \E n2 \in 1 .. Len(r[0].x) :
          /\ n1 < n2 /\ RowsOf(0, n1) = 1 /\ RowsOf(0, n2) = 1
          /\ r[0].y[n1] # r[0].y[n2]

\* the writes rank rk has issued in step index s
WritesOf(rk, s) == {wr \in writes : wr.rank = rk /\ wr.step = s}

\* C16: for step 499 no rank leaves the loop head (no read, no collective),
\* no directory and no file is made and nothing is written; a rank moves on
\* by one entry of step_strings at a time, past step 499 from the loop head
\* and past any other step only from its last close, with all its writes
\* issued.
C16_TerminalStepSkipped ==
    /\ [](\A s \in StepIdx :
            /\ step_strings[s] = SkipStep =>
                  /\ \A rk \in Ranks :
                        i[rk] = s => pc[rk] \in {"loop", "mpi_aborted"}
                  /\ ~dirs[s].exists
                  /\ \A f \in Fields : ~files[s][f].exists
                  /\ \A rk \in Ranks : WritesOf(rk, s) = {}
            /\ step_strings[s] # SkipStep =>
                  \A rk \in Ranks :
                      i[rk] > s => Cardinality(WritesOf(rk, s)) = Len(WriteOrder))
    /\ [][\A rk \in Ranks :
            i'[rk] # i[rk] =>
                /\ i'[rk] = i[rk] + 1
                /\ IF step_strings[i[rk]] = SkipStep
                   THEN pc[rk] = "loop"
                   ELSE pc[rk] = "close" /\ fld[rk] = Len(CloseOrder)]_vars

\* a rank is writing the step listed after step 499
C16_Witness ==
    \E rk \in Ranks : \E s \in StepIdx :
        /\ step_strings[s] = SkipStep
        /\ i[rk] = s + 1 /\ pc[rk] = "wait"
        /\ WritesOf(rk, s - 1) # {}

\* the phase of a step a rank is in: 0 Idle (the loop head), 1 Reading (header
\* lookup, reader, barrier, read), 2 Filtering (output directory and files
\* made ready, cut), 3 OffsetExchange (barrier, all-gather, prefix loop),
\* 4 Writing (seek, write, wait), 5 the closes that end the step
Phase(label) ==
    CASE label = "loop" -> 0
      [] label \in {"getlc", "gio", "barrier1", "read"} -> 1
      [] label \in {"dircheck", "open", "cut"} -> 2
      [] label \in {"barrier2", "clear", "allgather"} -> 3
      [] label \in {"iwrite", "wait"} -> 4
      [] label = "close" -> 5

\* C17: on every rank the phases of a step follow one another in the order
\* Idle, Reading, Filtering, OffsetExchange, Writing, Done, none skipped and
\* none entered again; the rank comes to the next step only from the last
\* close of the step (or from the loop head, for the skipped step).
C17_PhasesInOrder ==
    [][\A rk \in Ranks :
          /\ Stopped(rk) => pc'[rk] = pc[rk] /\ i'[rk] = i[rk]
          /\ (~Stopped(rk) /\ ~Stopped(rk)' /\ i'[rk] = i[rk]) =>
                 /\ Phase(pc'[rk]) \in {Phase(pc[rk]), Phase(pc[rk]) + 1}
                 /\ (Phase(pc[rk]) = 0 /\ Phase(pc'[rk]) = 1) =>
                        step_strings[i[rk]] # SkipStep
          /\ i'[rk] # i[rk] =>
                 /\ i'[rk] = i[rk] + 1 /\ pc'[rk] = "loop"
                 /\ \/ pc[rk] = "close" /\ fld[rk] = Len(CloseOrder)
                    \/ pc[rk] = "loop" /\ step_strings[i[rk]] = SkipStep]_vars

\* a rank that went through a whole step is closing the files of the next
C17_Witness ==
    \E rk \in Ranks :
        /\ i[rk] = Len(step_strings) /\ pc[rk] = "close"
        /\ Cardinality(WritesOf(rk, 1)) = Len(WriteOrder)
        /\ Cardinality(WritesOf(rk, i[rk])) = Len(WriteOrder)

\* rank rk has started to read the data of step index s
StartedRead(rk, s) ==
    \/ i[rk] > s
    \/ /\ i[rk] = s
       /\ pc[rk] \notin {"loop", "getlc", "gio", "barrier1", "gio_failed",
                          "mpi_aborted"}

\* rank q has reached the read barrier of step index s
ReachedReadBarrier(q, s) ==
    \/ i[q] > s
    \/ /\ i[q] = s
       /\ pc[q] \notin {"loop", "getlc", "gio", "gio_failed", "mpi_aborted"}

\* C18: a rank has started to read the data of a step only if every rank has
\* reached the read barrier of that step; so no rank reads a later step
\* while another has not come to the read of this one.
C18_BarrierBeforeRead ==
    \A s \in StepIdx :
        step_strings[s] # SkipStep =>
            \A rk \in Ranks : \A q \in Ranks :
                StartedRead(rk, s) => ReachedReadBarrier(q, s)

\* in the last step a rank has read and gone on while another is at its read
C18_Witness ==
    \E rk \in Ranks : \E q \in Ranks :
        /\ i[rk] = Len(step_strings) /\ i[q] = Len(step_strings)
        /\ pc[rk] = "dircheck" /\ Len(r[rk].x) > 0
        /\ pc[q] = "read"

\* getLCFile has returned to the rank for the step at hand
PastGetLCFile(rk) ==
    i[rk] \in StepIdx /\ pc[rk] \notin {"loop", "getlc", "mpi_aborted", "returned"}

\* C19: getLCFile returns to the step loop only when the step directory is
\* there and holds exactly one header, and that header is the file handed to
\* the reader; with no header, several headers or no directory the run is
\* aborted in getLCFile.
C19_OneHeaderOrAbort ==
    \A rk \in Ranks :
        PastGetLCFile(rk) =>
            /\ indirs[i[rk]].exists
            /\ Len(HeaderFiles(indirs[i[rk]].entries)) = 1
            /\ file_name[rk] = HeaderFiles(indirs[i[rk]].entries)[1]

\* a row of the halo file is one id followed by three numbers
WellFormedRow(row) ==
    /\ Len(row) = 4
    /\ row[1][1] = "h"
    /\ \A c \in 2 .. 4 : row[c][1] = "n"

\* C20: readHaloFile hands halos on only when every row of the file is one
\* id followed by three position components; when it aborts, it has handed
\* on no position and no id.
C20_MalformedHaloAborts ==
    /\ halo.pc = "done" =>
           \A rr \in 1 .. Len(halo.file) : WellFormedRow(halo.file[rr])
    /\ halo.pc = "mpi_aborted" => halo.haloPos = <<>> /\ halo.haloIds = <<>>

\* the operands of the call do not fit: two vectors of different sizes, a
\* matrix whose rows are not as long as the vector, a matrix that is not
\* square
Mismatched ==
    CASE call.fn \in {"dot", "cross", "normCross", "vecPairAngle"} ->
             Len(call.v1) # Len(call.v2)
      [] call.fn = "matVecMul" -> Len(call.v1[1]) # Len(call.v2)
      [] call.fn = "squareMat" -> Len(call.v1) # Len(call.v1[1])
      [] OTHER -> FALSE

\* C21: a helper called with operands of mismatched sizes ends in MPI_Abort
\* and has read no element outside its operands.
C21_MismatchAborts ==
    (call.pc # "start" /\ Mismatched) =>
        call.pc = "mpi_aborted" /\ ~call.out.oob

\* C22: the partition a rank has read is changed by nothing but the read of
\* a step: from the end of the read to the end of the step no element and no
\* length of an input column changes.
C22_PartitionUnchanged ==
    [][\A rk \in Ranks : r'[rk] # r[rk] => pc[rk] = "read"]_vars

\* a rank has cut and written a partition that is not empty
C22_Witness ==
    \E rk \in Ranks :
        /\ pc[rk] = "close"
        /\ Len(r[rk].x) > 0
        /\ \E j \in 1 .. Len(w[rk].id) : w[rk].id[j] = r[rk].id[1]

\* C23: after the cut of a step, all the columns declared in the write
\* buffers of a rank (theta and phi among them) have the same length.
C23_BatchColumnsSameLength ==
    \A rk \in Ranks :
        (pc[rk] \in {"barrier2", "clear", "allgather"} \/ PostExchange(rk)) =>
            \A c1 \in WriteCols : \A c2 \in WriteCols :
                Len(w[rk][c1]) = Len(w[rk][c2])

\* C24: in halo mode k, B, theta_cut and phi_cut are, in every state of the
\* step loop, the values computed from halo_pos and boxLength before it; in
\* both modes no step of the loop changes any of the four.
C24_WindowAndRotationFixed ==
    /\ [](mode = "halo" =>
            /\ k = HaloAxis(halo_pos)
            /\ B = HaloAngle(halo_pos)
            /\ theta_cut = HaloThetaCut(halo_pos, boxLength)
            /\ phi_cut = HaloPhiCut(halo_pos, boxLength))
    /\ [][k' = k /\ B' = B /\ theta_cut' = theta_cut /\ phi_cut' = phi_cut]_vars

\* a halo run in which a rank has cut a record in the last step
C24_Witness ==
    /\ mode = "halo"
    /\ k # Vec(0, 0, 0)
    /\ \E rk \in Ranks :
          /\ i[rk] = Len(step_strings) /\ pc[rk] = "close"
          /\ Len(r[rk].id) >= 1
          /\ \E j \in 1 .. Len(w[rk].id) : w[rk].id[j] = r[rk].id[1]

\* the paths of the files that exist for step index s
CreatedFiles(s) ==
    { FileName(f, step_strings[s], step_strings[s]) :
          f \in {g \in Fields : files[s][g].exists} }

\* the twelve paths the step is to produce
TwelveFiles(s) ==
    { << "Cutout", step_strings[s], "/", c, ".", step_strings[s], ".bin" >> :
          c \in {"x", "y", "z", "vx", "vy", "vz", "a", "id", "rotation",
                 "replication", "theta", "phi"} }

\* C25: the files made for a step are among <prefix>Cutout<step>/<field>.
\* <step>.bin for the twelve fields, none for the column step; once every
\* rank has its files open, the directory is there and the twelve files
\* (twelve different paths) are all there.
C25_TwelveFilesPerStep ==
    \A s \in StepIdx :
        /\ CreatedFiles(s) \subseteq TwelveFiles(s)
        /\ (\A rk \in Ranks :
               i[rk] = s /\ pc[rk] \in {"cut", "barrier2", "clear", "allgather",
                                        "iwrite", "wait", "close"}) =>
               /\ dirs[s].exists
               /\ CreatedFiles(s) = TwelveFiles(s)
               /\ Cardinality(CreatedFiles(s)) = 12

\* the ranks have the files of the last step open, those of the first one
\* are written
C25_Witness ==
    /\ \A rk \in Ranks : i[rk] = Len(step_strings) /\ pc[rk] = "cut"
    /\ Cardinality(CreatedFiles(1)) = 12

\* C26: the rotated vector has the magnitude of the vector rotated (the
\* squares of the two magnitudes are equal).
C26_RotationKeepsLength ==
    (call.fn = "rotate" /\ call.pc = "done") =>
        InnerProduct(call.v_rot, call.v_rot) = InnerProduct(call.v, call.v)

\* a quarter turn has moved a vector that is not on the axis
C26_Witness ==
    /\ call.fn = "rotate" /\ call.pc = "done"
    /\ call.B = 90
    /\ call.v_rot # call.v
    /\ InnerProduct(call.v, call.v) = 3

C28_WindowSymmetric ==
    (call.fn = "rotate" /\ call.pc \in {"setup", "done"}) =>
        /\ call.theta_cut[1] + call.theta_cut[2] = PiArcsec
        /\ call.phi_cut[1] = 0 - call.phi_cut[2]
        /\ 2 * call.phi_cut[2] = call.theta_cut[2] - call.theta_cut[1]
        /\ call.phi_cut[2] = AtanArcsec(call.L \div 2, HaloR(call.p))

\* the window of a box as wide as four times the distance: atan(2)
C28_Witness ==
    /\ call.fn = "rotate" /\ call.pc = "setup"
    /\ call.L = 8 /\ call.p = Vec(0, 0, 2)
    /\ call.phi_cut = << -228366, 228366 >>

\* the strings getLCSteps returned, the steps it found in the directory
ReturnedSteps == { call.step_strings[n] : n \in 1 .. Len(call.step_strings) }

AvailSteps == { call.stepsAvail[n] : n \in 1 .. Len(call.stepsAvail) }

BelowMin == { s \in AvailSteps : s < call.minStep }

\* C29: every step of the directory with minStep <= step <= maxStep is in
\* the step_strings getLCSteps returns.
C29_AllStepsInRange ==
    (call.fn = "getLCSteps" /\ call.pc = "done") =>
        \A s \in AvailSteps :
            (call.minStep <= s /\ s <= call.maxStep) =>
                IntToString(s) \in ReturnedSteps

\* C30: with no step equal to minStep and some step below it, the largest
\* step below minStep is returned and no smaller one is; with a step equal
\* to minStep, no step below minStep is returned.
C30_LowEndFallback ==
    (call.fn = "getLCSteps" /\ call.pc = "done") =>
        /\ (call.minStep \notin AvailSteps /\ BelowMin # {}) =>
              \A s \in BelowMin :
                  (IntToString(s) \in ReturnedSteps) <=>
                      (\A t \in BelowMin : t <= s)
        /\ (call.minStep \in AvailSteps) =>
              \A s \in BelowMin : IntToString(s) \notin ReturnedSteps

\* every row of the halo file is an id and three numbers
WellFormedFile == \A rr \in 1 .. Len(halo.file) : WellFormedRow(halo.file[rr])

\* C31: from a halo file of n rows "id x y z" readHaloFile returns n ids and
\* 3n position components, the id of row i at haloIds[i] and its x, y, z at
\* haloPos[3i], haloPos[3i+1], haloPos[3i+2].
C31_HaloRowsInOrder ==
    (halo.file # <<>> /\ halo.pc # "start" /\ WellFormedFile) =>
        /\ halo.pc = "done"
        /\ Len(halo.haloIds) = Len(halo.file)
        /\ Len(halo.haloPos) = 3 * Len(halo.file)
        /\ \A rr \in 1 .. Len(halo.file) :
              /\ halo.haloIds[rr] = halo.file[rr][1]
              /\ \A c \in 1 .. 3 :
                    << "n", halo.haloPos[3 * (rr - 1) + c] >> =
                        halo.file[rr][c + 1]

\* a file of three well-formed rows has been read
C31_Witness ==
    /\ halo.pc = "done" /\ Len(halo.file) = 3 /\ WellFormedFile
    /\ halo.haloPos = << 11, 12, 13, 21, 22, 23, 31, 32, 33 >>
    /\ halo.haloIds = << << "h", 1 >>, << "h", 2 >>, << "h", 3 >> >>

\* C32: a rank has at most one write request outstanding, and when it is
\* about to seek and write a field, none: the wait on the request of the
\* field before has returned.
C32_OneWriteAtATime ==
    \A rk \in Ranks :
        /\ Cardinality(sync[rk].reqs) <= 1
        /\ pc[rk] = "iwrite" => sync[rk].reqs = {}
        /\ pc[rk] = "wait" => sync[rk].reqs = {fld[rk]}

\* a rank waits on its third write, the first two have reached the files
C32_Witness ==
    \E rk \in Ranks :
        /\ pc[rk] = "wait" /\ fld[rk] = 3 /\ sync[rk].reqs = {3}
        /\ Len(w[rk].x) >= 1
        /\ \E wr \in writes : wr.rank = rk /\ wr.step = i[rk] /\ wr.seq = 2

\* the rank has issued every write of the step it is in
AllIssued(rk) ==
    \A n \in 1 .. Len(WriteOrder) :
        \E wr \in writes : wr.rank = rk /\ wr.step = i[rk] /\ wr.seq = n

\* C33: a rank holds no open file outside a step (before the opens of the
\* step, after its closes, and when the loop has ended); between the last
\* open and the first close it holds all twelve; each close is of a file
\* still open, and comes after the last write of the step has completed.
C33_FilesClosedOnce ==
    \A rk \in Ranks :
        /\ pc[rk] \in {"loop", "getlc", "gio", "barrier1", "read", "dircheck",
                       "returned"} => sync[rk].open = {}
        /\ pc[rk] = "open" =>
              sync[rk].open = { OpenOrder[j] : j \in 1 .. (fld[rk] - 1) }
        /\ pc[rk] \in {"cut", "barrier2", "clear", "allgather", "iwrite",
                       "wait"} =>
              sync[rk].open = Fields /\ Cardinality(sync[rk].open) = 12
        /\ pc[rk] = "close" =>
              /\ CloseOrder[fld[rk]] \in sync[rk].open
              /\ sync[rk].open =
                     Fields \ { CloseOrder[j] : j \in 1 .. (fld[rk] - 1) }
              /\ sync[rk].reqs = {}
              /\ AllIssued(rk)

\* both ranks have returned, after the writes and closes of the last step
C33_Witness ==
    \E rk \in Ranks : \E q \in Ranks :
        /\ pc[rk] = "returned" /\ i[rk] = Len(step_strings) + 1
        /\ pc[q] = "returned" /\ q # rk
        /\ \E wr \in writes : wr.rank = rk /\ wr.step = Len(step_strings)

\* element j (from 0) of field file f of step index s; nothing when the file
\* is too short
ElementOf(s, f, j) ==
    LET d == files[s][f].data
    IN  IF f = "id"
        THEN (IF Len(d) >= 2 * j + 2 THEN << << d[2 * j + 1], d[2 * j + 2] >> >>
              ELSE <<>>)
        ELSE (IF Len(d) >= j + 1 THEN << d[j + 1] >> ELSE <<>>)

\* row n of rank q's batch is one record: its tagged columns carry one tag
OneRecord(q, n) ==
    LET t == w[q].id[n][1]
    IN  /\ w[q].id[n] = IdOf(t)
        /\ w[q].vx[n] = 1000 + t /\ w[q].vy[n] = 2000 + t
        /\ w[q].vz[n] = 3000 + t /\ w[q].a[n] = 4000 + t
        /\ w[q].rotation[n] = 7000 + t /\ w[q].replication[n] = 8000 + t

\* the number of records of the step, sum(count[])
TotalCount == SumCounts([q \in Ranks |-> Len(w[q].a)], NumRanks - 1)

\* C34: once a step is written, element j of each of its twelve field files
\* is the field of one and the same selected record, for every j below the
\* number of records of the step.
C34_RowsAligned ==
    \A s \in StepIdx :
        AllWritten(s) =>
            \A j \in 0 .. (TotalCount - 1) :
                \E q \in Ranks : \E n \in 1 .. Len(w[q].a) :
                    /\ OneRecord(q, n)
                    /\ \A f \in Fields :
                          ElementOf(s, f, j) = << w[q][f][n] >>

\* the position of record n of rank rk as read, and as rotate() returns it
RawRecord(rk, n) == Vec(r[rk].x[n], r[rk].y[n], r[rk].z[n])

RotatedRecord(rk, n) == rotate(k, B, RawRecord(rk, n))

\* the angles of the rotated position lie strictly inside the window
RotatedInWindow(rk, n) ==
    LET th == ThetaOf(RotatedRecord(rk, n))
        ph == PhiOf(RotatedRecord(rk, n))
    IN  theta_cut[1] < th /\ th < theta_cut[2] /\
        phi_cut[1] < ph /\ ph < phi_cut[2]

\* C35: in halo mode a record is selected exactly when its position as read
\* is in the first octant and the angles of its rotated position are in the
\* window; the row of a selected record holds x, y, z as read and the theta,
\* phi of the rotated position.
C35_RawOctantRotatedWindow ==
    mode = "halo" =>
        \A rk \in Ranks :
            pc[rk] = "barrier2" =>
                \A n \in 1 .. Len(r[rk].x) :
                    LET raw == RawRecord(rk, n)
                        sel == /\ raw[1] > 0 /\ raw[2] > 0 /\ raw[3] > 0
                               /\ RotatedInWindow(rk, n)
                    IN  /\ RowsOf(rk, n) = IF sel THEN 1 ELSE 0
                        /\ sel =>
                              \E j \in 1 .. Len(w[rk].id) :
                                  /\ w[rk].id[j] = r[rk].id[n]
                                  /\ w[rk].x[j] = raw[1]
                                  /\ w[rk].y[j] = raw[2]
                                  /\ w[rk].z[j] = raw[3]
                                  /\ w[rk].theta[j] =
                                         ThetaOf(RotatedRecord(rk, n))
                                  /\ w[rk].phi[j] = PhiOf(RotatedRecord(rk, n))

\* a halo cut that kept a record the rotation moved, and dropped a record
\* outside the octant whose rotated position is in the octant and the window
C35_Witness ==
    /\ mode = "halo" /\ pc[0] = "barrier2"
    /\ \E n \in 1 .. Len(r[0].x) :
          /\ RowsOf(0, n) = 1
          /\ RotatedRecord(0, n) # RawRecord(0, n)
          /\ PhiOf(RotatedRecord(0, n)) # PhiOf(RawRecord(0, n))
    /\ \E n \in 1 .. Len(r[0].x) :
          /\ RowsOf(0, n) = 0
          /\ ~Octant(RawRecord(0, n))
          /\ Octant(RotatedRecord(0, n))
          /\ RotatedInWindow(0, n)

\* a and b are parallel or anti-parallel (or one of them is the zero
\* vector): equality in the Cauchy-Schwarz inequality
Collinear(a, b) ==
    InnerProduct(a, b) * InnerProduct(a, b) =
        InnerProduct(a, a) * InnerProduct(b, b)

\* the determinant of the matrix of rows a, b, c
Det3(a, b, c) ==
    a[1] * (b[2] * c[3] - b[3] * c[2])
        - a[2] * (b[1] * c[3] - b[3] * c[1])
        + a[3] * (b[1] * c[2] - b[2] * c[1])

\* C36: normCross(a, b, k) appends three components to k: the zero vector
\* when a and b are parallel or anti-parallel, and otherwise the unit vector
\* orthogonal to a and to b that makes a, b, k right-handed (a x b over its
\* magnitude).
C36_NormCrossUnitOrZero ==
    (call.fn = "normCross" /\ call.pc = "done") =>
        /\ Len(call.k) = 3
        /\ Collinear(call.a, call.b) => call.k = Vec(0, 0, 0)
        /\ ~Collinear(call.a, call.b) =>
              /\ InnerProduct(call.k, call.k) = 1
              /\ InnerProduct(call.k, call.a) = 0
              /\ InnerProduct(call.k, call.b) = 0
              /\ Det3(call.a, call.b, call.k) > 0

\* two vectors of the x-y plane, neither on an axis, with k = -z
C36_Witness ==
    /\ call.fn = "normCross" /\ call.pc = "done"
    /\ call.a = Vec(1, 2, 0) /\ call.b = Vec(2, 1, 0)
    /\ call.k = Vec(0, 0, -1)

\* no output directory of any step is there
FreshRun == \A s \in StepIdx : ~dirs[s].exists /\ dirs[s].stale = 0

\* C37: in a run that starts with no output directory of any step, no rank
\* ever finds the output directory of its step non-empty (no rank throws at
\* the directory check), however the checks, the mkdir and the file
\* creations of the ranks interleave.
C37_FreshRunNeverNonEmpty ==
    FreshRun => [](\A rk \in Ranks : pc[rk] # "threw")

\* the sum of the counts of the ranks below j, as a number
RECURSIVE SumBelow(_, _)
SumBelow(cnt, j) == IF j <= 0 THEN 0 ELSE cnt[j - 1] + SumBelow(cnt, j - 1)

\* C38: whatever counts that fit an int the ranks gather, the run does not
\* end in the prefix loop, the element offset of every rank is the sum of
\* the counts of the lower ranks, and the byte offsets of the seeks are that
\* sum times the element size.
C38_ExactOffsets ==
    call.fn = "offsets" =>
        /\ call.pc # "aborted"
        /\ call.pc \in {"summed", "done"} =>
              \A j \in 0 .. (OffRanks - 1) :
                  call.np_offset[j] = SumBelow(call.np_count, j)
        /\ call.pc = "done" =>
              /\ call.offset_posvel =
                     SizeofPosvel * SumBelow(call.np_count, call.rank)
              /\ call.offset_id =
                     SizeofId * SumBelow(call.np_count, call.rank)

\* the places where a rank is in a collective call
Collectives == {"gio", "barrier1", "open", "barrier2", "allgather", "close"}

\* the rank has ended by an exception, a failed check or MPI_Abort
Failed(rk) == pc[rk] \in {"threw", "gio_failed", "aborted", "mpi_aborted"}

\* every rank has gone through the last step and returned
AllReturned ==
    \A rk \in Ranks : pc[rk] = "returned" /\ i[rk] = Len(step_strings) + 1

\* C39: the ranks that meet in a collective call are in the same call of
\* the same step (the same one of the twelve opens or closes); and in a run
\* in which no rank fails, every rank gets through the last step of
\* step_strings and returns: none stays in a collective forever.
C39_AllRanksReturn ==
    /\ [](\A label \in Collectives :
            (\A q \in Ranks : pc[q] = label) =>
                \A q \in Ranks : i[q] = i[0] /\ fld[q] = fld[0])
    /\ ([](\A rk \in Ranks : ~Failed(rk))) => <>AllReturned

\* every rank has returned after the barriers, the all-gather and the
\* thirteen writes of both steps that are not skipped
C39_Witness ==
    /\ AllReturned
    /\ \A rk \in Ranks :
          /\ sync[rk].barrier = Len(step_strings)
          /\ sync[rk].gather = Len(step_strings)
          /\ Cardinality(WritesOf(rk, 1)) = Len(WriteOrder)
          /\ Cardinality(WritesOf(rk, Len(step_strings))) = Len(WriteOrder)
=============================================================================
